---- MODULE Spec2Model ----
(***************************************************************************)
(* A model of the Ethereum trading MCP server: the precision engine        *)
(* (src/src/precision.rs), the three tools (src/src/tools) over the chain  *)
(* gateway (src/src/rpc/client.rs), and the JSON-RPC dispatcher            *)
(* (src/src/server/mcp.rs) behind the connection loop (src/src/main.rs).   *)
(***************************************************************************)
EXTENDS Integers, Sequences, FiniteSets, TLC

(***************************************************************************)
(* Unbounded naturals.  U256 and the 96-bit mantissa of rust_decimal's     *)
(* Decimal exceed the integers of the model checker, so a natural number   *)
(* is a sequence of limbs in base 10^4 (groups of four decimal digits),    *)
(* most significant first, without leading zero limbs; the empty sequence  *)
(* is zero.  <<7, 9228>> is 79228.                                         *)
(***************************************************************************)
Base == 10000
LimbDigits == 4

RECURSIVE Norm(_)
Norm(ds) == IF ds = <<>> THEN <<>>
            ELSE IF Head(ds) = 0 THEN Norm(Tail(ds)) ELSE ds

RECURSIVE BigOf(_)
BigOf(n) == IF n = 0 THEN <<>> ELSE Append(BigOf(n \div Base), n % Base)

Zeros(k) == [i \in 1..k |-> 0]

\* the limb of weight Base^i
Limb(a, i) == IF i < Len(a) THEN a[Len(a) - i] ELSE 0

RECURSIVE LexCmp(_, _, _)
LexCmp(a, b, i) == IF i > Len(a) THEN 0
                   ELSE IF a[i] < b[i] THEN -1
                   ELSE IF a[i] > b[i] THEN 1
                   ELSE LexCmp(a, b, i + 1)

BigCmp(a, b) == IF Len(a) < Len(b) THEN -1
                ELSE IF Len(a) > Len(b) THEN 1
                ELSE LexCmp(a, b, 1)

BigLe(a, b) == BigCmp(a, b) <= 0
BigLt(a, b) == BigCmp(a, b) < 0

RECURSIVE AddRec(_, _, _, _)
AddRec(a, b, i, c) ==
    IF i >= Len(a) /\ i >= Len(b)
    THEN (IF c = 0 THEN <<>> ELSE <<c>>)
    ELSE LET t == Limb(a, i) + Limb(b, i) + c
         IN  Append(AddRec(a, b, i + 1, t \div Base), t % Base)

BigAdd(a, b) == AddRec(a, b, 0, 0)

\* a - b for a >= b
RECURSIVE SubRec(_, _, _, _)
SubRec(a, b, i, c) ==
    IF i >= Len(a) THEN <<>>
    ELSE LET t == Limb(a, i) - Limb(b, i) - c
         IN  Append(SubRec(a, b, i + 1, IF t < 0 THEN 1 ELSE 0), (t + Base) % Base)

BigSub(a, b) == Norm(SubRec(a, b, 0, 0))

\* a * k for 0 <= k <= Base
RECURSIVE MulSmallRec(_, _, _, _)
MulSmallRec(a, k, i, c) ==
    IF i >= Len(a)
    THEN (IF c = 0 THEN <<>> ELSE <<c>>)
    ELSE LET t == Limb(a, i) * k + c
         IN  Append(MulSmallRec(a, k, i + 1, t \div Base), t % Base)

BigMulSmall(a, k) == IF k = 0 THEN <<>> ELSE MulSmallRec(a, k, 0, 0)

\* <<floor(a / k), a mod k>> for 0 < k <= Base, the remainder an integer
RECURSIVE DivSmallRec(_, _, _, _, _)
DivSmallRec(a, k, i, q, r) ==
    IF i > Len(a) THEN <<Norm(q), r>>
    ELSE LET t == r * Base + a[i]
         IN  DivSmallRec(a, k, i + 1, Append(q, t \div k), t % k)

BigDivSmall(a, k) == DivSmallRec(a, k, 1, <<>>, 0)

SmallPow10(k) == IF k = 0 THEN 1 ELSE IF k = 1 THEN 10 ELSE IF k = 2 THEN 100 ELSE 1000

\* a * 10^k and floor(a / 10^k)
BigShl(a, k) ==
    IF a = <<>> THEN <<>>
    ELSE BigMulSmall(a \o Zeros(k \div LimbDigits), SmallPow10(k % LimbDigits))

BigShr(a, k) ==
    IF Len(a) <= k \div LimbDigits THEN <<>>
    ELSE BigDivSmall(SubSeq(a, 1, Len(a) - k \div LimbDigits),
                     SmallPow10(k % LimbDigits))[1]

Pow10(k) == BigShl(<<1>>, k)

\* the number of decimal digits of a
NumDigits(a) ==
    IF a = <<>> THEN 0
    ELSE LimbDigits * (Len(a) - 1)
         + (IF a[1] >= 1000 THEN 4 ELSE IF a[1] >= 100 THEN 3 ELSE IF a[1] >= 10 THEN 2 ELSE 1)

RECURSIVE MulRec(_, _, _, _)
MulRec(a, b, i, acc) ==
    IF i > Len(b) THEN acc
    ELSE MulRec(a, b, i + 1,
                BigAdd(IF acc = <<>> THEN <<>> ELSE Append(acc, 0), BigMulSmall(a, b[i])))

BigMul(a, b) == IF a = <<>> \/ b = <<>> THEN <<>> ELSE MulRec(a, b, 1, <<>>)

\* long division: <<quotient, remainder>> of n by d, d # 0; each quotient limb is
\* the largest c in lo..hi with c * d <= r, found by bisection
RECURSIVE QuotLimb(_, _, _, _)
QuotLimb(r, d, lo, hi) ==
    IF lo = hi THEN lo
    ELSE LET mid == (lo + hi + 1) \div 2
         IN  IF BigLe(BigMulSmall(d, mid), r) THEN QuotLimb(r, d, mid, hi)
             ELSE QuotLimb(r, d, lo, mid - 1)

RECURSIVE DivRec(_, _, _, _, _)
DivRec(n, d, i, q, r) ==
    IF i > Len(n) THEN <<Norm(q), r>>
    ELSE LET r1 == Norm(Append(r, n[i]))
             c  == QuotLimb(r1, d, 0, Base - 1)
         IN  DivRec(n, d, i + 1, Append(q, c), BigSub(r1, BigMulSmall(d, c)))

BigDivMod(n, d) == DivRec(n, d, 1, <<>>, <<>>)

\* m rounded to a multiple of 10^k and divided by it, ties to even
RoundHalfEven(m, k) ==
    IF k = 0 THEN m
    ELSE LET q    == BigShr(m, k)
             rem  == BigSub(m, BigShl(q, k))
             half == BigShl(<<5>>, k - 1)
             up   == BigLt(half, rem) \/ (rem = half /\ Limb(q, 0) % 2 = 1)
         IN  IF up THEN BigAdd(q, <<1>>) ELSE q

(***************************************************************************)
(* Integer widths of the source: u8 decimals, u64 gas, u128 gas price and  *)
(* to_u128, U256 amounts; the 96-bit mantissa and the largest scale of     *)
(* rust_decimal::Decimal.                                                  *)
(***************************************************************************)
U8Max == 255
U64Max == <<1844, 6744, 737, 955, 1615>>
U128Max == <<340, 2823, 6692, 938, 4634, 6337, 4607, 4317, 6821, 1455>>
U256Max == <<11, 5792, 892, 3731, 6195, 4235, 7098, 5008, 6879, 785, 3269, 9846, 6564, 564, 394, 5758, 4007, 9131, 2963, 9935>>
MantissaMax == <<7, 9228, 1625, 1426, 4337, 5935, 4395, 335>>
MaxScale == 28

BigOne == <<1>>

(***************************************************************************)
(* rust_decimal::Decimal: sign, 96-bit mantissa m and scale s (the value   *)
(* is m / 10^s).  Decimal compares by value and the responses print        *)
(* normalize()d values, so a value is kept in its normal form: no          *)
(* trailing zero of the mantissa while s > 0, and zero is unsigned.        *)
(***************************************************************************)
DecZero == [neg |-> FALSE, m |-> <<>>, s |-> 0]

RECURSIVE StripZeros(_, _)
StripZeros(m, s) == IF s > 0 /\ m[Len(m)] % 10 = 0
                    THEN StripZeros(BigShr(m, 1), s - 1)
                    ELSE [m |-> m, s |-> s]

MkDec(neg, m, s) == IF m = <<>> THEN DecZero
                    ELSE LET t == StripZeros(m, s)
                         IN  [neg |-> neg, m |-> t.m, s |-> t.s]

DecOfInt(n) == MkDec(n < 0, BigOf(IF n < 0 THEN -n ELSE n), 0)
DecOne == DecOfInt(1)
DecTen == DecOfInt(10)
DecHundred == DecOfInt(100)

NoneV == [tag |-> "None"]
Some(v) == [tag |-> "Some", val |-> v]

\* Bind({e : x \in {a}}) is e with x bound to a: a `let x = a;` of the source
Bind(S) == CHOOSE v \in S : TRUE

\* the exact value m / 10^s brought into the Decimal format: the scale is cut to
\* at most MaxScale and further until the mantissa fits 96 bits, rounding half to
\* even once; None when it does not fit at scale 0
RECURSIVE FitRec(_, _, _, _)
FitRec(neg, m, s, k) ==
    IF k > s THEN NoneV
    ELSE Bind({ IF BigLe(r, MantissaMax) THEN Some(MkDec(neg, r, s - k))
                ELSE FitRec(neg, m, s, k + 1) :
                r \in {RoundHalfEven(m, k)} })

MaxOf(a, b) == IF a > b THEN a ELSE b

DecFit(neg, m, s) ==
    FitRec(neg, m, s, MaxOf(MaxOf(0, s - MaxScale), NumDigits(m) - NumDigits(MantissaMax)))

checked_mul(a, b) == DecFit(a.neg # b.neg, BigMul(a.m, b.m), a.s + b.s)

\* the quotient to 29 fractional digits and a sticky digit for the remainder, then fitted
checked_div(a, b) ==
    IF b.m = <<>> THEN NoneV
    ELSE IF a.m = <<>> THEN Some(DecZero)
    ELSE Bind({ DecFit(a.neg # b.neg,
                       BigAdd(BigShl(qr[1], 1), IF qr[2] = <<>> THEN <<>> ELSE BigOne),
                       MaxScale + 2) :
                qr \in {BigDivMod(BigShl(a.m, MaxScale + 1 + b.s - a.s), b.m)} })

checked_add(a, b) ==
    LET sc == MaxOf(a.s, b.s)
        ma == BigShl(a.m, sc - a.s)
        mb == BigShl(b.m, sc - b.s)
    IN  DecFit(IF a.neg = b.neg \/ BigLe(mb, ma) THEN a.neg ELSE b.neg,
               IF a.neg = b.neg THEN BigAdd(ma, mb)
               ELSE IF BigLe(mb, ma) THEN BigSub(ma, mb)
               ELSE BigSub(mb, ma),
               sc)

DecNeg(a) == IF a.m = <<>> THEN a ELSE [a EXCEPT !.neg = ~a.neg]

checked_sub(a, b) == checked_add(a, DecNeg(b))

\* a < b
DecLt(a, b) ==
    LET sc == MaxOf(a.s, b.s)
        ma == BigShl(a.m, sc - a.s)
        mb == BigShl(b.m, sc - b.s)
    IN  IF a.neg /\ ~b.neg THEN TRUE
        ELSE IF ~a.neg /\ b.neg THEN FALSE
        ELSE IF a.neg THEN BigLt(mb, ma)
        ELSE BigLt(ma, mb)

\* Decimal::from_str of the decimal digits of an unsigned integer
DecFromStr(raw) == IF BigLe(raw, MantissaMax) THEN Some(MkDec(FALSE, raw, 0)) ELSE NoneV

\* Decimal::to_u128: None for a negative value, else the truncated value
to_u128(a) == IF a.neg THEN NoneV ELSE Some(BigShr(a.m, a.s))

(***************************************************************************)
(* Results.  A function returning Result<T> ends in Ok or Err; an          *)
(* overflowing `*`, `/` or `-` on Decimal panics, which unwinds the task.  *)
(***************************************************************************)
Ok(v) == [tag |-> "Ok", val |-> v]
Err(kind, msg) == [tag |-> "Err", kind |-> kind, msg |-> msg]
Panic == [tag |-> "Panic"]

\* Option::ok_or_else
ok_or(option, err) == IF option.tag = "None" THEN err ELSE Ok(option.val)

\* for _ in 0..decimals { acc = acc * Decimal::from(10) }
RECURSIVE PowLoop(_, _)
PowLoop(n, acc) == IF n = 0 \/ acc.tag = "None" THEN acc
                   ELSE PowLoop(n - 1, checked_mul(acc.val, DecTen))


(***************************************************************************)
(* src/src/precision.rs                                                    *)
(***************************************************************************)
to_decimal(raw_amount, decimals) ==
    Bind({ IF divisor.tag = "None" THEN Panic
           ELSE IF amount_decimal.tag = "None"
           THEN Err("PrecisionError", "Failed to parse amount")
           ELSE ok_or(checked_div(amount_decimal.val, divisor.val),
                      Err("PrecisionError", "Division overflow")) :
           divisor \in {PowLoop(decimals, Some(DecOne))},
           amount_decimal \in {DecFromStr(raw_amount)} })

from_decimal(decimal_amount, decimals) ==
    Bind({ IF multiplier.tag = "None" THEN Panic
           ELSE Bind({ IF raw_decimal.tag = "None"
                       THEN Err("PrecisionError", "Multiplication overflow")
                       ELSE ok_or(to_u128(raw_decimal.val),
                                  Err("PrecisionError", "Amount too large")) :
                       raw_decimal \in {checked_mul(decimal_amount, multiplier.val)} }) :
           multiplier \in {PowLoop(decimals, Some(DecOne))} })

\* the slip of multiplying by (1 - slippage) instead of (1 - slippage / 100)
min_output_without_percent(expected_output, slippage_percentage) ==
    IF DecLt(slippage_percentage, DecZero) \/ DecLt(DecHundred, slippage_percentage)
    THEN Err("PrecisionError", "Slippage must be between 0 and 100")
    ELSE Bind({ IF slippage_multiplier.tag = "None" THEN Panic
                ELSE ok_or(checked_mul(expected_output, slippage_multiplier.val),
                           Err("PrecisionError", "Multiplication overflow")) :
                slippage_multiplier \in {checked_sub(DecOne, slippage_percentage)} })

calculate_min_output_with_slippage(expected_output, slippage_percentage) ==
    IF DecLt(slippage_percentage, DecZero) \/ DecLt(DecHundred, slippage_percentage)
    THEN Err("PrecisionError", "Slippage must be between 0 and 100")
    ELSE Bind({ IF ratio.tag = "None" THEN Panic
                ELSE Bind({ IF slippage_multiplier.tag = "None" THEN Panic
                            ELSE ok_or(checked_mul(expected_output, slippage_multiplier.val),
                                       Err("PrecisionError", "Multiplication overflow")) :
                            slippage_multiplier \in {checked_sub(DecOne, ratio.val)} }) :
                ratio \in {checked_div(slippage_percentage, DecHundred)} })

(***************************************************************************)
(* State.                                                                  *)
(***************************************************************************)
VARIABLES
    px,       \* the precision engine on its own: the arguments and result of one call
    main_pc,  \* main(): "new_rpc", "write_slots", "listening" or "exited"
    slots,    \* McpServer's four Arc<RwLock<Option<_>>> fields: TRUE when Some
    chain,    \* the chain behind the gateway
    peers,    \* the clients that will connect
    script,   \* the lines a client may send
    pc,       \* per connection: where its task stands
    req,      \* per connection: the request in hand
    loc,      \* per connection: the locals of the suspended tool future
    resp,     \* per connection: the response line written for the request in hand
    trace,    \* per connection: the gateway calls of the request in hand, with their answers
    guards    \* per connection: the slots whose RwLock read guard its handler holds

vars == <<px, main_pc, slots, chain, peers, script, pc, req, loc, resp, trace, guards>>

server_vars == <<main_pc, slots, chain, peers, script, pc, req, loc, resp, trace, guards>>

Pending == [tag |-> "Pending"]

(***************************************************************************)
(* Strings.  Identifiers and addresses are the strings of the source; an   *)
(* Address value is written in its checksum form, which is what            *)
(* Address::to_string() prints.  str::to_uppercase and                     *)
(* str::parse::<Address>() are tabulated on the strings the requests use:  *)
(* parse accepts 40 hex digits in any letter case after an optional "0x",  *)
(* and not after "0X".                                                     *)
(***************************************************************************)
ETH_IDENTIFIER == "0xEeeeeEeeeEeEeeEeEeEeeEEEeeeeEeeeeeeeEEeE"
WETH_ADDRESS == "0xC02aaA39b223FE8D0A0e5C4F27eAD9083C756Cc2"
USDC_ADDRESS == "0xA0b86991c6218b36c1d19D4a2e9Eb0cE3606eB48"
UNISWAP_V2_FACTORY == "0x5C69bEe701ef814a2B6a3EDD4B1652CB9cc5aA6f"
router_address == "0x7a250d5630B4cF539739dF2C5dAcb4c659F2488D"
ZeroAddress == "0x0000000000000000000000000000000000000000"
\* the WETH/USDC pair and a wallet
PairAddress == "0xB4e16d0168e52d35CaCD2c6185b44281Ec28C9Dc"
WalletAddress == "0xd8dA6BF26964aF9D7eEd9e03E53415D37aA96045"
UsdcLowercase == "0xa0b86991c6218b36c1d19d4a2e9eb0ce3606eb48"
EthLowercase == "0xeeeeeeeeeeeeeeeeeeeeeeeeeeeeeeeeeeeeeeee"

\* the slip of comparing identifiers in the letter case they came in
as_written(s) == s

to_uppercase(s) ==
    CASE s \in {"eth", "Eth"} -> "ETH"
      [] s = "usd" -> "USD"
      [] s = "eur" -> "EUR"
      [] s \in {"usdc", "Usdc"} -> "USDC"
      [] s = "weth" -> "WETH"
      [] s \in {ETH_IDENTIFIER, EthLowercase} -> "0XEEEEEEEEEEEEEEEEEEEEEEEEEEEEEEEEEEEEEEEE"
      [] s = WETH_ADDRESS -> "0XC02AAA39B223FE8D0A0E5C4F27EAD9083C756CC2"
      [] s \in {USDC_ADDRESS, UsdcLowercase} -> "0XA0B86991C6218B36C1D19D4A2E9EB0CE3606EB48"
      [] s = WalletAddress -> "0XD8DA6BF26964AF9D7EED9E03E53415D37AA96045"
      [] OTHER -> s

\* the slip of reading whatever is no address as the zero address
parse_address_or_zero(s) ==
    CASE s \in {ETH_IDENTIFIER, EthLowercase} -> Some(ETH_IDENTIFIER)
      [] s = WETH_ADDRESS -> Some(WETH_ADDRESS)
      [] s \in {USDC_ADDRESS, UsdcLowercase} -> Some(USDC_ADDRESS)
      [] s = WalletAddress -> Some(WalletAddress)
      [] OTHER -> Some(ZeroAddress)

parse_address(s) ==
    CASE s \in {ETH_IDENTIFIER, EthLowercase} -> Some(ETH_IDENTIFIER)
      [] s = WETH_ADDRESS -> Some(WETH_ADDRESS)
      [] s \in {USDC_ADDRESS, UsdcLowercase} -> Some(USDC_ADDRESS)
      [] s = WalletAddress -> Some(WalletAddress)
      [] OTHER -> NoneV

\* the slip of reading an amount that is no number as zero
parse_decimal_or_zero(s) ==
    CASE s = "10" -> Some(DecOfInt(10))
      [] s = "100" -> Some(DecOfInt(100))
      [] s = "-1" -> Some(DecOfInt(-1))
      [] OTHER -> Some(DecZero)

\* str::parse::<Decimal>() on the amount strings the requests use
parse_decimal(s) ==
    CASE s = "10" -> Some(DecOfInt(10))
      [] s = "100" -> Some(DecOfInt(100))
      [] s = "-1" -> Some(DecOfInt(-1))
      [] OTHER -> NoneV

(***************************************************************************)
(* src/src/tokens.rs                                                       *)
(***************************************************************************)
TokenRegistry ==
    [ETH  |-> ETH_IDENTIFIER,
     WETH |-> WETH_ADDRESS,
     USDC |-> USDC_ADDRESS,
     USDT |-> "0xdAC17F958D2ee523a2206206994597C13D831ec7",
     DAI  |-> "0x6B175474E89094C44Da98b954EedeAC495271d0F",
     LINK |-> "0x514910771AF9Ca656af840dff83E8264EcF986CA",
     UNI  |-> "0x1f9840a85d5aF5bf1D1762F925BDADdC4201F984",
     AAVE |-> "0x7Fc66500c84A76Ad7e9c93437E434122A1f9AcDd",
     FRAX |-> "0x853d955aCEf822Db058eb8505911ED77F175b999"]

\* the slip of looking a symbol up in the letter case it came in
symbol_to_address_as_written(symbol) ==
    IF symbol \in DOMAIN TokenRegistry THEN Some(TokenRegistry[symbol]) ELSE NoneV

symbol_to_address(symbol) ==
    IF to_uppercase(symbol) \in DOMAIN TokenRegistry
    THEN Some(TokenRegistry[to_uppercase(symbol)])
    ELSE NoneV

address_to_symbol(address) ==
    IF \E s \in DOMAIN TokenRegistry : TokenRegistry[s] = address
    THEN Some(CHOOSE s \in DOMAIN TokenRegistry : TokenRegistry[s] = address)
    ELSE NoneV

(***************************************************************************)
(* Suspension points.  A handler runs until it awaits the gateway (Await), *)
(* its tool returns (Return), the dispatcher has its outcome (Respond), or *)
(* it panics and its task unwinds (Unwind).                                *)
(***************************************************************************)
Await(stage, locals) == [pc |-> stage, loc |-> locals]
Return(result) == [pc |-> "return", ret |-> result]
Respond(outcome) == [pc |-> "respond", out |-> outcome]
Unwind == [pc |-> "panicked"]

\* the locals l with the local name bound to value
With(l, name, value) == (name :> value) @@ l

(***************************************************************************)
(* src/src/rpc/client.rs and the contract bindings of price.rs: what a     *)
(* gateway call sends (prim), what it leaves of the chain, and what it     *)
(* can answer: the chain's value, or an error.                             *)
(***************************************************************************)
GatewayCall(prim, ch, answers) == [prim |-> prim, chain |-> ch, answers |-> answers]

IsContract(ch, address) == address \in DOMAIN ch.tokens

get_eth_balance(ch, address) ==
    GatewayCall("eth_getBalance", ch,
                {Err("RpcError", "get balance failed"), Ok(ch.native)})

get_token_balance(ch, token_address, account_address) ==
    GatewayCall("eth_call balanceOf", ch,
                {Err("RpcError", "get token balance failed")}
                \cup (IF IsContract(ch, token_address)
                      THEN {Ok(ch.tokens[token_address].balance)} ELSE {}))

get_token_decimals(ch, token_address) ==
    GatewayCall("eth_call decimals", ch,
                {Err("RpcError", "get token decimals failed")}
                \cup (IF IsContract(ch, token_address)
                      THEN {Ok(ch.tokens[token_address].decimals)} ELSE {}))

get_token_symbol(ch, token_address) ==
    GatewayCall("eth_call symbol", ch,
                {Err("RpcError", "get token symbol failed")}
                \cup (IF IsContract(ch, token_address)
                      THEN {Ok(ch.tokens[token_address].symbol)} ELSE {}))

estimate_gas(ch, tx) ==
    GatewayCall("eth_estimateGas", ch,
                {Err("GasEstimationFailed", "gas estimation failed"), Ok(ch.gas)})

get_gas_price(ch) ==
    GatewayCall("eth_gasPrice", ch,
                {Err("RpcError", "get gas price failed"), Ok(ch.gas_price)})

get_amounts_out(ch, amount_in, path) ==
    GatewayCall("eth_call getAmountsOut", ch,
                {Err("RpcError", "get amounts out failed"),
                 Ok(<<>>),
                 Ok(<<amount_in, ch.amount_out>>)})

\* the slip of sending the swap instead of calling it
submit_swap_exact_tokens_for_tokens(ch, tx) ==
    GatewayCall("eth_sendTransaction",
                [ch EXCEPT !.nonce = @ + 1, !.pending = @ + 1],
                {Err("SwapSimulationFailed", "swap simulation failed"),
                 Ok(<<tx.amount_in, ch.amount_out>>)})

\* provider.call(&tx) and the decoding of what it returns
simulate_swap_exact_tokens_for_tokens(ch, tx) ==
    GatewayCall("eth_call swapExactTokensForTokens", ch,
                {Err("SwapSimulationFailed", "swap simulation failed"),
                 Err("SwapSimulationFailed", "decoding the swap result failed"),
                 Ok(<<tx.amount_in, ch.amount_out>>)})

getPair(ch, tokenA, tokenB) ==
    GatewayCall("eth_call getPair", ch,
                {Err("PriceOracleError", "cannot get pair"),
                 Ok(IF ch.pool.exists /\ {tokenA, tokenB} = {WETH_ADDRESS, USDC_ADDRESS}
                    THEN PairAddress ELSE ZeroAddress)})

getReserves(ch, pair) ==
    GatewayCall("eth_call getReserves", ch,
                {Err("PriceOracleError", "cannot get reserves"),
                 Ok([reserve0 |-> ch.pool.reserve0, reserve1 |-> ch.pool.reserve1])})

token0(ch, pair) ==
    GatewayCall("eth_call token0", ch,
                {Err("PriceOracleError", "cannot get token0"), Ok(ch.pool.token0)})

(***************************************************************************)
(* src/src/tools/swap.rs, simulate_swap, from its last stage to its first. *)
(* A Decimal printed into a response is kept as the value it prints        *)
(* ("0" is DecZero); the error strings are kept as records of their fixed  *)
(* text and of the figures or the cause they quote.                        *)
(***************************************************************************)
DEFAULT_GAS_PRICE == BigShl(BigOf(20), 9)
DEFAULT_GAS_ESTIMATE == BigOf(150000)
ETH_DECIMALS == 18

SwapResponse(request, estimated_output, min_output, gas_cost_eth, simulation_success, error) ==
    [from_token          |-> request.from_token,
     to_token            |-> request.to_token,
     input_amount        |-> request.amount,
     estimated_output    |-> estimated_output,
     min_output          |-> min_output,
     gas_cost_eth        |-> gas_cost_eth,
     slippage_percentage |-> request.slippage,
     simulation_success  |-> simulation_success,
     error               |-> error]

\* the slip of leaving the amount computed so far in min_output
failed_quote_leaving_amounts(request, estimated_output, text, cause) ==
    Return(Ok(SwapResponse(request, estimated_output, estimated_output, DecZero, FALSE,
                           Some([text |-> text, cause |-> cause]))))

\* return Ok(SwapResponse { .., simulation_success: false, error: Some(..) })
failed_quote(request, estimated_output, text, cause) ==
    Return(Ok(SwapResponse(request, estimated_output, DecZero, DecZero, FALSE,
                           Some([text |-> text, cause |-> cause]))))

\* lines 343-368
swap_finish(l, gas_estimate) ==
    Bind({ Return(Ok(SwapResponse(l.request, l.estimated_output, l.min_output,
                                  IF cost.tag = "Ok" THEN cost.val ELSE DecZero,
                                  TRUE, NoneV))) :
           cost \in {to_decimal(BigMul(gas_estimate, l.gas_price), ETH_DECIMALS)} })

\* lines 305-322 of rpc/client.rs, 336-341
after_swap_call(l, ans) ==
    swap_finish(l, IF ans.tag = "Ok" THEN l.gas_estimate ELSE DEFAULT_GAS_ESTIMATE)

\* line 296 of rpc/client.rs, 336-341
after_estimate_gas(l, ans) ==
    IF ans.tag = "Ok" THEN Await("SwapCall", With(l, "gas_estimate", ans.val))
    ELSE swap_finish(l, DEFAULT_GAS_ESTIMATE)

\* lines 308-322
after_gas_price(l, ans) ==
    Bind({ IF converted.tag = "Panic" THEN Unwind
           ELSE Await("SwapEstimateGas",
                      With(With(l, "gas_price",
                                IF ans.tag = "Ok" THEN ans.val ELSE DEFAULT_GAS_PRICE),
                           "min_output_u256",
                           IF converted.tag = "Ok" THEN converted.val ELSE <<>>)) :
           converted \in {from_decimal(l.min_output, l.to_decimals)} })

\* the slip of quoting the estimated output as the minimum output
after_estimated_output_without_slippage(l, estimated_output) ==
    Await("SwapGasPrice",
          With(With(l, "estimated_output", estimated_output),
               "min_output", estimated_output))

\* lines 271-305, once the output amount is converted
after_estimated_output(l, estimated_output) ==
    Bind({ IF min_output.tag = "Panic" THEN Unwind
           ELSE IF min_output.tag = "Err"
           THEN failed_quote(l.request, estimated_output, "slippage calculation failed",
                             Some(min_output))
           ELSE Await("SwapGasPrice",
                      With(With(l, "estimated_output", estimated_output),
                           "min_output", min_output.val)) :
           min_output \in {calculate_min_output_with_slippage(estimated_output,
                                                              l.request.slippage)} })

\* lines 236-270
after_get_amounts_out(l, ans) ==
    IF ans.tag = "Err"
    THEN failed_quote(l.request, DecZero, "cannot get price from Uniswap", Some(ans))
    ELSE IF ans.val = <<>>
    THEN failed_quote(l.request, DecZero, "Uniswap returned empty amounts", NoneV)
    ELSE Bind({ IF estimated_output.tag = "Panic" THEN Unwind
                ELSE IF estimated_output.tag = "Err"
                THEN failed_quote(l.request, DecZero, "output amount conversion failed",
                                  Some(estimated_output))
                ELSE after_estimated_output(l, estimated_output.val) :
                estimated_output \in {to_decimal(ans.val[Len(ans.val)], l.to_decimals)} })

\* lines 215-233
convert_input_amount(l) ==
    Bind({ IF amount_in_u256.tag = "Panic" THEN Unwind
           ELSE IF amount_in_u256.tag = "Err"
           THEN failed_quote(l.request, DecZero, "amount conversion failed",
                             Some(amount_in_u256))
           ELSE Await("SwapGetAmountsOut", With(l, "amount_in_u256", amount_in_u256.val)) :
           amount_in_u256 \in {from_decimal(l.input_amount_decimal, l.from_decimals)} })

\* lines 195-212
after_to_decimals(l, ans) ==
    IF ans.tag = "Err"
    THEN failed_quote(l.request, DecZero, "cannot get target token info", Some(ans))
    ELSE convert_input_amount(With(l, "to_decimals", ans.val))

\* lines 192-194
fetch_to_decimals(l) ==
    IF l.to_is_eth THEN convert_input_amount(With(l, "to_decimals", ETH_DECIMALS))
    ELSE Await("SwapToDecimals", l)

\* lines 173-190
after_from_decimals(l, ans) ==
    IF ans.tag = "Err"
    THEN failed_quote(l.request, DecZero, "cannot get source token info", Some(ans))
    ELSE fetch_to_decimals(With(l, "from_decimals", ans.val))

\* lines 170-172
fetch_from_decimals(l) ==
    IF l.from_is_eth THEN fetch_to_decimals(With(l, "from_decimals", ETH_DECIMALS))
    ELSE Await("SwapFromDecimals", l)

\* the slip of failing the simulation when the balance could not be read
after_balance_check_or_fail(l, balance) ==
    IF balance.tag # "Ok"
    THEN failed_quote(l.request, DecZero, "cannot read balance", Some(balance))
    ELSE IF DecLt(balance.val.balance, l.input_amount_decimal)
    THEN Return(Ok(SwapResponse(l.request, DecZero, DecZero, DecZero, FALSE,
                                Some([text      |-> "insufficient balance",
                                      available |-> balance.val.balance,
                                      required  |-> l.input_amount_decimal]))))
    ELSE fetch_from_decimals(l)

\* lines 141-166: balance.balance.parse::<Decimal>() gives back the value printed
after_balance_check(l, balance) ==
    IF balance.tag = "Ok" /\ DecLt(balance.val.balance, l.input_amount_decimal)
    THEN Return(Ok(SwapResponse(l.request, DecZero, DecZero, DecZero, FALSE,
                                Some([text      |-> "insufficient balance",
                                      available |-> balance.val.balance,
                                      required  |-> l.input_amount_decimal]))))
    ELSE fetch_from_decimals(l)

(***************************************************************************)
(* src/src/tools/balance.rs.  k is who awaits the balance: the dispatcher  *)
(* (get_balance) or the balance check of simulate_swap.                    *)
(***************************************************************************)
\* a panic of the tool unwinds the caller too
balance_return(k, result) ==
    IF result.tag = "Panic" THEN Unwind
    ELSE IF k.tool = "get_balance" THEN Return(result)
    ELSE after_balance_check(k.swap, result)

BalanceResponse(address, balance, decimals, raw, token_type, token_address) ==
    [address       |-> address,
     balance       |-> balance,
     decimals      |-> decimals,
     raw           |-> raw,
     token_type    |-> token_type,
     token_address |-> token_address]

validate_address(addr_str) ==
    IF parse_address(addr_str).tag = "Some" THEN Ok(parse_address(addr_str).val)
    ELSE Err("InvalidAddress", "invalid Ethereum address")

\* get_eth_balance, lines 161-171
after_eth_balance(l, ans) ==
    balance_return(l.k,
        IF ans.tag = "Err" THEN ans
        ELSE Bind({ IF balance.tag = "Ok"
                    THEN Ok(BalanceResponse(l.wallet_address, balance.val, ETH_DECIMALS,
                                            ans.val, "ETH", ETH_IDENTIFIER))
                    ELSE balance :
                    balance \in {to_decimal(ans.val, ETH_DECIMALS)} }))

\* get_erc20_balance, lines 190-205
after_token_balance(l, ans) ==
    balance_return(l.k,
        IF ans.tag = "Err" THEN ans
        ELSE Bind({ IF balance.tag = "Ok"
                    THEN Ok(BalanceResponse(l.wallet_address, balance.val, l.decimals,
                                            ans.val, l.symbol, l.token_address))
                    ELSE balance :
                    balance \in {to_decimal(ans.val, l.decimals)} }))

\* get_erc20_balance, line 189
after_balance_decimals(l, ans) ==
    IF ans.tag = "Err" THEN balance_return(l.k, ans)
    ELSE Await("BalanceOf", With(l, "decimals", ans.val))

\* resolve_token_info, lines 125-135; get_erc20_balance, line 186
after_balance_symbol(l, ans) ==
    Await("BalanceDecimals",
          With(l, "symbol", IF ans.tag = "Ok" THEN ans.val ELSE "UNKNOWN"))

\* get_balance and resolve_token_info up to the first gateway call, lines 67-155
get_balance(request, k) ==
    LET wallet_address == validate_address(request.address)
        token_id       == request.token_address.val
        token_id_upper == to_uppercase(token_id)
        native         == Await("BalanceNative",
                                [k |-> k, wallet_address |-> wallet_address.val])
    IN  Bind({ IF step.pc = "return" THEN balance_return(k, step.ret) ELSE step :
               step \in {
                   IF wallet_address.tag = "Err" THEN Return(wallet_address)
                   ELSE IF request.token_address.tag = "None" THEN native
                   ELSE IF token_id_upper = to_uppercase(ETH_IDENTIFIER)
                           \/ token_id_upper = "ETH"
                   THEN native
                   ELSE IF parse_address(token_id).tag = "Some"
                   THEN (IF to_uppercase(parse_address(token_id).val)
                                = to_uppercase(ETH_IDENTIFIER)
                         THEN native
                         ELSE Await("BalanceSymbol",
                                    [k |-> k, wallet_address |-> wallet_address.val,
                                     token_address |-> parse_address(token_id).val]))
                   ELSE IF symbol_to_address(token_id_upper).tag = "Some"
                   THEN Await("BalanceDecimals",
                              [k |-> k, wallet_address |-> wallet_address.val,
                               token_address |-> symbol_to_address(token_id_upper).val,
                               symbol |-> token_id_upper])
                   ELSE Return(Err("TokenNotFound", "token not found")) } })

(***************************************************************************)
(* src/src/tools/swap.rs, simulate_swap up to the balance check.           *)
(***************************************************************************)
resolve_token(identifier) ==
    LET identifier_upper == to_uppercase(identifier)
    IN  IF parse_address(identifier_upper).tag = "Some"
        THEN Ok(parse_address(identifier_upper).val)
        ELSE IF symbol_to_address(identifier_upper).tag = "Some"
        THEN Ok(symbol_to_address(identifier_upper).val)
        ELSE Err("InvalidTokenPair", "cannot resolve token")

is_eth(identifier) ==
    to_uppercase(identifier) = "ETH"
    \/ to_uppercase(identifier) = to_uppercase(ETH_IDENTIFIER)

eth_to_weth(token_addr) ==
    IF to_uppercase(token_addr) = to_uppercase(ETH_IDENTIFIER) THEN WETH_ADDRESS
    ELSE token_addr

\* lines 86-139
simulate_swap(request) ==
    LET from_token_raw       == resolve_token(request.from_token)
        to_token_raw         == resolve_token(request.to_token)
        wallet_address       == parse_address(request.wallet_address)
        input_amount_decimal == parse_decimal(request.amount)
    IN  IF from_token_raw.tag = "Err" THEN Return(from_token_raw)
        ELSE IF to_token_raw.tag = "Err" THEN Return(to_token_raw)
        ELSE IF wallet_address.tag = "None"
        THEN Return(Err("InvalidAddress", "invalid wallet address"))
        ELSE IF input_amount_decimal.tag = "None"
        THEN failed_quote(request, DecZero, "invalid amount format", NoneV)
        ELSE get_balance(
                 [address       |-> wallet_address.val,
                  token_address |-> Some(eth_to_weth(from_token_raw.val))],
                 [tool |-> "swap_tokens",
                  swap |-> [request              |-> request,
                            from_token           |-> eth_to_weth(from_token_raw.val),
                            to_token             |-> eth_to_weth(to_token_raw.val),
                            from_is_eth          |-> is_eth(request.from_token),
                            to_is_eth            |-> is_eth(request.to_token),
                            wallet_address       |-> wallet_address.val,
                            input_amount_decimal |-> input_amount_decimal.val]])

(***************************************************************************)
(* src/src/tools/price.rs.  A price is one pool lookup (leg "in_eth": the  *)
(* token against WETH) or two (then leg "eth_usdc": WETH against USDC);    *)
(* now is what SystemTime::now() reads when the response is built.         *)
(***************************************************************************)
PriceResponse(quote_currency, price, timestamp) ==
    [quote_currency |-> quote_currency, price |-> price, timestamp |-> timestamp]

get_price_from_uniswap_pool(l, leg, token_address, quote_token) ==
    Await("PoolGetPair",
          With(With(With(l, "leg", leg), "pool_token", token_address),
               "quote_token", quote_token))

\* get_price, lines 191-237, once a pool has given its price
\* the slip of answering a USD price with the first hop alone
after_pool_price_single_hop(l, price, now) ==
    Return(Ok(PriceResponse(l.quote_currency, price, now)))

after_pool_price(l, price, now) ==
    IF l.quote_currency = "ETH" THEN Return(Ok(PriceResponse("ETH", price, now)))
    ELSE IF l.leg = "in_eth"
    THEN get_price_from_uniswap_pool(With(l, "price_in_eth", price), "eth_usdc",
                                     WETH_ADDRESS, USDC_ADDRESS)
    ELSE Bind({ IF product.tag = "None" THEN Unwind
                ELSE Return(Ok(PriceResponse("USD", product.val, now))) :
                product \in {checked_mul(l.price_in_eth, price)} })

\* lines 139-149
pool_price(l, reserve_token_decimal, reserve_quote_decimal, now) ==
    IF reserve_token_decimal.m = <<>>
    THEN Return(Err("PriceOracleError", "token reserve is zero"))
    ELSE Bind({ IF price.tag = "None" THEN Unwind
                ELSE after_pool_price(l, price.val, now) :
                price \in {checked_div(reserve_quote_decimal, reserve_token_decimal)} })

\* lines 130-138
after_quote_decimals(l, ans, now) ==
    IF ans.tag = "Err" THEN Return(ans)
    ELSE Bind({ IF reserve_token_decimal.tag = "Panic" THEN Unwind
                ELSE IF reserve_token_decimal.tag = "Err" THEN Return(reserve_token_decimal)
                ELSE Bind({ IF reserve_quote_decimal.tag = "Panic" THEN Unwind
                            ELSE IF reserve_quote_decimal.tag = "Err"
                            THEN Return(reserve_quote_decimal)
                            ELSE pool_price(l, reserve_token_decimal.val,
                                            reserve_quote_decimal.val, now) :
                            reserve_quote_decimal \in {to_decimal(l.reserve_quote, ans.val)} }) :
                reserve_token_decimal \in {to_decimal(l.reserve_token, l.token_decimals)} })

\* line 129
after_token_decimals(l, ans) ==
    IF ans.tag = "Err" THEN Return(ans)
    ELSE Await("PoolQuoteDecimals", With(l, "token_decimals", ans.val))

\* the slip of taking reserve0 for the priced token's reserve whatever token0 is
after_token0_unoriented(l, ans) ==
    IF ans.tag = "Err" THEN Return(ans)
    ELSE IF l.reserves.reserve1 = <<>>
    THEN Return(Err("PriceOracleError", "quote token reserve is zero"))
    ELSE Await("PoolTokenDecimals",
               With(With(l, "reserve_token", l.reserves.reserve0),
                    "reserve_quote", l.reserves.reserve1))

\* lines 105-126
after_token0(l, ans) ==
    LET reserve_token == IF ans.val = l.pool_token THEN l.reserves.reserve0
                         ELSE l.reserves.reserve1
        reserve_quote == IF ans.val = l.pool_token THEN l.reserves.reserve1
                         ELSE l.reserves.reserve0
    IN  IF ans.tag = "Err" THEN Return(ans)
        ELSE IF reserve_quote = <<>>
        THEN Return(Err("PriceOracleError", "quote token reserve is zero"))
        ELSE Await("PoolTokenDecimals",
                   With(With(l, "reserve_token", reserve_token),
                        "reserve_quote", reserve_quote))

\* lines 99-103
after_get_reserves(l, ans) ==
    IF ans.tag = "Err" THEN Return(ans)
    ELSE Await("PoolToken0", With(l, "reserves", ans.val))

\* the slip of reading the reserves of whatever address the factory answers
after_get_pair_unchecked(l, ans) ==
    IF ans.tag = "Err" THEN Return(ans)
    ELSE Await("PoolGetReserves", With(l, "pair_address", ans.val))

\* lines 84-96
after_get_pair(l, ans) ==
    IF ans.tag = "Err" THEN Return(ans)
    ELSE IF ans.val = ZeroAddress
    THEN Return(Err("PriceOracleError", "pair does not exist"))
    ELSE Await("PoolGetReserves", With(l, "pair_address", ans.val))

\* get_price, lines 182-223
after_price_symbol(l, ans, now) ==
    LET symbol == IF ans.tag = "Ok" THEN ans.val
                  ELSE IF address_to_symbol(l.token_address).tag = "Some"
                  THEN address_to_symbol(l.token_address).val
                  ELSE "UNKNOWN"
        known  == With(l, "symbol", symbol)
    IN  IF l.quote_currency = "ETH"
        THEN (IF l.token_address = WETH_ADDRESS
              THEN Return(Ok(PriceResponse("ETH", DecOne, now)))
              ELSE get_price_from_uniswap_pool(known, "in_eth", l.token_address,
                                               WETH_ADDRESS))
        ELSE (IF l.token_address = WETH_ADDRESS
              THEN get_price_from_uniswap_pool(With(known, "price_in_eth", DecOne),
                                               "eth_usdc", WETH_ADDRESS, USDC_ADDRESS)
              ELSE get_price_from_uniswap_pool(known, "in_eth", l.token_address,
                                               WETH_ADDRESS))

\* the slip of taking any quote unit
get_price_in_any_unit(request) ==
    LET token_identifier == to_uppercase(request.token_identifier)
        quote_currency   == IF request.quote_currency.tag = "Some"
                            THEN to_uppercase(request.quote_currency.val)
                            ELSE "USD"
        token_address    == IF parse_address(token_identifier).tag = "Some"
                            THEN parse_address(token_identifier)
                            ELSE symbol_to_address(token_identifier)
    IN  IF token_address.tag = "None"
        THEN Return(Err("TokenNotFound", "token does not exist"))
        ELSE Await("PriceSymbol",
                   [quote_currency |-> quote_currency, token_address |-> token_address.val])

\* get_price up to the first gateway call, lines 153-179
get_price(request) ==
    LET token_identifier == to_uppercase(request.token_identifier)
        quote_currency   == IF request.quote_currency.tag = "Some"
                            THEN to_uppercase(request.quote_currency.val)
                            ELSE "USD"
        token_address    == IF parse_address(token_identifier).tag = "Some"
                            THEN parse_address(token_identifier)
                            ELSE symbol_to_address(token_identifier)
    IN  IF quote_currency # "USD" /\ quote_currency # "ETH"
        THEN Return(Err("PriceOracleError", "unsupported quote currency"))
        ELSE IF token_address.tag = "None"
        THEN Return(Err("TokenNotFound", "token does not exist"))
        ELSE Await("PriceSymbol",
                   [quote_currency |-> quote_currency, token_address |-> token_address.val])

(***************************************************************************)
(* src/src/server/mcp.rs                                                   *)
(***************************************************************************)
SlotNames == {"rpc_client", "balance_tool", "price_tool", "swap_tool"}

ToolNames == {"get_balance", "get_token_price", "swap_tokens"}

\* Result<Value, JsonRpcError>::Err
Fail(error) == [tag |-> "Fail", error |-> error]

\* message is the fixed text, cause the tool's error the message ends with
JsonRpcError(code, message, cause) == [code |-> code, message |-> message, cause |-> cause]

JsonRpcResponse(result, error, id) ==
    [jsonrpc |-> "2.0", result |-> result, error |-> error, id |-> id]

\* serde_json::Value::Null, which no String field takes
JsonNull == "null (the JSON value)"

\* serde_json::from_value into the tool's request struct
RequiredFields(tool_name) ==
    CASE tool_name = "get_balance" -> {"address"}
      [] tool_name = "get_token_price" -> {"token_identifier"}
      [] tool_name = "swap_tokens" ->
             {"from_token", "to_token", "amount", "slippage", "wallet_address"}

Optional(arguments, field) ==
    IF field \in DOMAIN arguments /\ arguments[field] # JsonNull
    THEN Some(arguments[field]) ELSE NoneV

\* the String fields that must be there and be strings
StringFields(tool_name) == RequiredFields(tool_name) \ {"slippage"}

BalanceRequest(arguments) ==
    [address |-> arguments.address, token_address |-> Optional(arguments, "token_address")]

PriceRequest(arguments) ==
    [token_identifier |-> arguments.token_identifier,
     quote_currency   |-> Optional(arguments, "quote_currency")]

SlotOf(tool_name) ==
    CASE tool_name = "get_balance" -> "balance_tool"
      [] tool_name = "get_token_price" -> "price_tool"
      [] tool_name = "swap_tokens" -> "swap_tool"

FailurePrefix(tool_name) ==
    CASE tool_name = "get_balance" -> "Balance query failed"
      [] tool_name = "get_token_price" -> "Price query failed"
      [] tool_name = "swap_tokens" -> "Swap simulation failed"

\* the slip of a dispatcher that passes the tool's failure on without its text
tool_outcome_without_cause(tool_name, ret) ==
    IF ret.tag = "Ok" THEN Ok(ret.val)
    ELSE Fail(JsonRpcError(-32603, "Internal error", NoneV))

\* lines 232-239, 256-263, 280-287: what the tool returned, as the outcome of the call
tool_outcome(tool_name, ret) ==
    IF ret.tag = "Ok" THEN Ok(ret.val)
    ELSE Fail(JsonRpcError(-32603, FailurePrefix(tool_name), Some(ret)))

\* the slip of running a tool without looking whether its slot is filled
handle_tool_call_ungated(params, sl) ==
    IF params.name.tag = "None"
    THEN Respond(Fail(JsonRpcError(-32602, "Missing or invalid 'name' parameter", NoneV)))
    ELSE IF params.arguments.tag = "None"
    THEN Respond(Fail(JsonRpcError(-32602, "Missing 'arguments' parameter", NoneV)))
    ELSE IF params.name.val \notin ToolNames
    THEN Respond(Fail(JsonRpcError(-32601, "Tool not found", NoneV)))
    ELSE IF \/ ~(RequiredFields(params.name.val) \subseteq DOMAIN params.arguments.val)
            \/ \E f \in StringFields(params.name.val) : params.arguments.val[f] = JsonNull
    THEN Respond(Fail(JsonRpcError(-32602, "Invalid arguments", NoneV)))
    ELSE CASE params.name.val = "get_balance" ->
                  get_balance(BalanceRequest(params.arguments.val), [tool |-> "get_balance"])
           [] params.name.val = "get_token_price" ->
                  get_price(PriceRequest(params.arguments.val))
           [] params.name.val = "swap_tokens" ->
                  simulate_swap(params.arguments.val)

\* lines 199-295, up to the tool's first gateway call; sl says which slots are Some
handle_tool_call(params, sl) ==
    IF params.name.tag = "None"
    THEN Respond(Fail(JsonRpcError(-32602, "Missing or invalid 'name' parameter", NoneV)))
    ELSE IF params.arguments.tag = "None"
    THEN Respond(Fail(JsonRpcError(-32602, "Missing 'arguments' parameter", NoneV)))
    ELSE IF params.name.val \notin ToolNames
    THEN Respond(Fail(JsonRpcError(-32601, "Tool not found", NoneV)))
    ELSE IF \/ ~(RequiredFields(params.name.val) \subseteq DOMAIN params.arguments.val)
            \/ \E f \in StringFields(params.name.val) : params.arguments.val[f] = JsonNull
    THEN Respond(Fail(JsonRpcError(-32602, "Invalid arguments", NoneV)))
    ELSE IF ~sl[SlotOf(params.name.val)]
    THEN Respond(Fail(JsonRpcError(-32603, "tool not initialized", NoneV)))
    ELSE CASE params.name.val = "get_balance" ->
                  get_balance(BalanceRequest(params.arguments.val), [tool |-> "get_balance"])
           [] params.name.val = "get_token_price" ->
                  get_price(PriceRequest(params.arguments.val))
           [] params.name.val = "swap_tokens" ->
                  simulate_swap(params.arguments.val)

\* the slip of a dispatcher that lists only the tools whose slot is filled
handle_request_listing_ready_tools(request, sl) ==
    CASE request.method = "tools/list" ->
             Respond(Ok([tools |-> SelectSeq(<<"get_balance", "get_token_price", "swap_tokens">>,
                                             LAMBDA n : sl[SlotOf(n)])]))
      [] request.method = "tools/call" -> handle_tool_call(request.params, sl)
      [] request.method = "ping" -> Respond(Ok([status |-> "ok"]))
      [] OTHER -> Respond(Fail(JsonRpcError(-32601, "Method not found", NoneV)))

\* the slip of a dispatcher that serves one request at a time and turns the others away
handle_request_unless_busy(request, sl) ==
    IF \E c \in DOMAIN pc : pc[c] \notin {"unconnected", "reading", "closed", "panicked"}
    THEN Respond(Fail(JsonRpcError(-32000, "Server busy", NoneV)))
    ELSE CASE request.method = "tools/list" ->
                  Respond(Ok([tools |-> <<"get_balance", "get_token_price", "swap_tokens">>]))
           [] request.method = "tools/call" -> handle_tool_call(request.params, sl)
           [] request.method = "ping" -> Respond(Ok([status |-> "ok"]))
           [] OTHER -> Respond(Fail(JsonRpcError(-32601, "Method not found", NoneV)))

\* lines 163-172, up to the tool's first gateway call
handle_request(request, sl) ==
    CASE request.method = "tools/list" ->
             Respond(Ok([tools |-> <<"get_balance", "get_token_price", "swap_tokens">>]))
      [] request.method = "tools/call" -> handle_tool_call(request.params, sl)
      [] request.method = "ping" -> Respond(Ok([status |-> "ok"]))
      [] OTHER -> Respond(Fail(JsonRpcError(-32601, "Method not found", NoneV)))

\* lines 174-187
response_of(request, outcome) ==
    IF outcome.tag = "Ok" THEN JsonRpcResponse(Some(outcome.val), NoneV, request.id)
    ELSE JsonRpcResponse(NoneV, Some(outcome.error), request.id)

\* main.rs lines 90-98
parse_error_response ==
    JsonRpcResponse(NoneV, Some(JsonRpcError(-32700, "Parse error", NoneV)), NoneV)

(***************************************************************************)
(* The chain behind the gateway: the wallet's native balance, the ERC-20   *)
(* contracts (decimals, symbol, the wallet's balance), the WETH/USDC pool, *)
(* what the router quotes, gas, and what a submitted transaction would     *)
(* change (the wallet's nonce, the pending transactions).                  *)
(***************************************************************************)
Token(decimals, symbol, balance) ==
    [decimals |-> decimals, symbol |-> symbol, balance |-> balance]

Pool(exists, reserve0, reserve1) ==
    [exists |-> exists, token0 |-> USDC_ADDRESS, reserve0 |-> reserve0, reserve1 |-> reserve1]

Chain(native, weth, usdc, pool, amount_out, gas_price, gas) ==
    [native     |-> native,
     tokens     |-> (WETH_ADDRESS :> weth) @@ (USDC_ADDRESS :> usdc),
     pool       |-> pool,
     amount_out |-> amount_out,
     gas_price  |-> gas_price,
     gas        |-> gas,
     nonce      |-> 0,
     pending    |-> 0]

U112Max == <<51, 9229, 6858, 5348, 2762, 8530, 4963, 2922, 95>>

\* 100 ETH, 5 WETH, 50 USDC; a pool of 2,500,000 USDC and 1,000 WETH; the router
\* quotes 990 USDC; 30 gwei, 120,000 gas
OrdinaryChain ==
    Chain(BigShl(BigOf(100), 18),
          Token(18, "WETH", BigShl(BigOf(5), 18)),
          Token(6, "USDC", BigShl(BigOf(50), 6)),
          Pool(TRUE, BigShl(BigOf(2500000), 6), BigShl(BigOf(1000), 18)),
          BigShl(BigOf(990), 6), BigShl(BigOf(30), 9), BigOf(120000))

\* tokens reporting 255 and 29 decimals
WideDecimalsChain ==
    Chain(BigShl(BigOf(100), 18),
          Token(U8Max, "WETH", BigShl(BigOf(5), 18)),
          Token(MaxScale + 1, "USDC", BigShl(BigOf(50), 6)),
          Pool(TRUE, BigShl(BigOf(2500000), 6), BigShl(BigOf(1000), 18)),
          BigShl(BigOf(990), 6), BigShl(BigOf(30), 9), BigOf(120000))

\* the largest balances, reserves, gas price and gas estimate
WhaleChain ==
    Chain(U256Max,
          Token(18, "WETH", U256Max),
          Token(6, "USDC", U256Max),
          Pool(TRUE, U112Max, U112Max),
          BigShl(BigOf(990), 6), U128Max, U64Max)

\* nothing held, no pool, a token of 28 decimals, and a quote beyond 96 bits
DustChain ==
    Chain(<<>>,
          Token(18, "WETH", <<>>),
          Token(MaxScale, "USDC", <<>>),
          Pool(FALSE, <<>>, <<>>),
          U256Max, BigOne, BigOf(21000))

\* a pool drained of its USDC, a token of 28 decimals, and a quote of one unit
DrainedChain ==
    Chain(BigShl(BigOf(100), 18),
          Token(18, "WETH", BigShl(BigOf(50), 18)),
          Token(MaxScale, "USDC", BigShl(BigOf(50), MaxScale)),
          Pool(TRUE, <<>>, BigShl(BigOf(1000), 18)),
          BigOne, BigShl(BigOf(30), 9), BigOf(120000))

\* tokens of equal decimals in a pool of 1,000 USDC and 2,500 WETH
EvenChain ==
    Chain(BigShl(BigOf(100), 18),
          Token(18, "WETH", BigShl(BigOf(5), 18)),
          Token(18, "USDC", BigShl(BigOf(50), 18)),
          Pool(TRUE, BigShl(BigOf(1000), 18), BigShl(BigOf(2500), 18)),
          BigShl(BigOf(990), 18), BigShl(BigOf(30), 9), BigOf(120000))

\* the same pool in its other orientation: WETH is token0
MirrorChain ==
    [EvenChain EXCEPT !.pool = [exists   |-> TRUE,
                                token0   |-> WETH_ADDRESS,
                                reserve0 |-> BigShl(BigOf(2500), 18),
                                reserve1 |-> BigShl(BigOf(1000), 18)]]

\* a pool of 3 USDC and 1 WETH: a price that no Decimal holds exactly
ThirdsChain ==
    [EvenChain EXCEPT !.pool = Pool(TRUE, BigShl(BigOf(3), 18), BigShl(BigOf(1), 18))]

ChainSamples ==
    {OrdinaryChain, WideDecimalsChain, WhaleChain, DustChain,
     DrainedChain, EvenChain, MirrorChain, ThirdsChain}

(***************************************************************************)
(* The lines a client sends: an empty line, a line that is no JSON-RPC     *)
(* request, or a request.                                                  *)
(***************************************************************************)
EmptyLine == [kind |-> "empty"]
GarbageLine == [kind |-> "garbage"]

RequestLine(id, method, name, arguments) ==
    [kind    |-> "request",
     request |-> [jsonrpc |-> "2.0", method |-> method,
                  params  |-> [name |-> name, arguments |-> arguments],
                  id      |-> Some(id)]]

ToolCall(id, name, arguments) == RequestLine(id, "tools/call", Some(name), Some(arguments))

BalanceArgs(address) == [address |-> address]
TokenBalanceArgs(address, token) == [address |-> address, token_address |-> token]
PriceArgs(token) == [token_identifier |-> token]
QuotedPriceArgs(token, quote) == [token_identifier |-> token, quote_currency |-> quote]

SwapArgs(from, to, amount, slippage, wallet) ==
    [from_token |-> from, to_token |-> to, amount |-> amount,
     slippage |-> slippage, wallet_address |-> wallet]

HalfPercent == MkDec(FALSE, BigOf(5), 1)

DispatcherLines ==
    {EmptyLine, GarbageLine,
     RequestLine(1, "ping", NoneV, NoneV),
     RequestLine(2, "ping", NoneV, NoneV),
     RequestLine(1, "tools/list", NoneV, NoneV),
     RequestLine(2, "tools/list", Some("transfer"), Some(BalanceArgs(JsonNull))),
     RequestLine(1, "resources/list", NoneV, NoneV),
     RequestLine(1, "tools/call", NoneV, Some(BalanceArgs(WalletAddress))),
     RequestLine(1, "tools/call", Some("get_balance"), NoneV),
     ToolCall(1, "transfer", BalanceArgs(WalletAddress)),
     RequestLine(1, "tools/call", Some("transfer"), NoneV),
     ToolCall(1, "get_balance", PriceArgs("USDC")),
     ToolCall(1, "get_balance", BalanceArgs(JsonNull)),
     ToolCall(1, "get_balance", TokenBalanceArgs(WalletAddress, JsonNull))}

BalanceLines ==
    {ToolCall(1, "get_balance", BalanceArgs(WalletAddress)),
     ToolCall(1, "get_balance", TokenBalanceArgs(WalletAddress, "eth")),
     ToolCall(1, "get_balance", TokenBalanceArgs(WalletAddress, "ETH")),
     ToolCall(1, "get_balance", TokenBalanceArgs(WalletAddress, "Eth")),
     ToolCall(1, "get_balance", TokenBalanceArgs(WalletAddress, ETH_IDENTIFIER)),
     ToolCall(1, "get_balance", TokenBalanceArgs(WalletAddress, EthLowercase)),
     ToolCall(1, "get_balance", TokenBalanceArgs(WalletAddress, "USDC")),
     ToolCall(1, "get_balance", TokenBalanceArgs(WalletAddress, "Usdc")),
     ToolCall(1, "get_balance", TokenBalanceArgs(WalletAddress, UsdcLowercase)),
     ToolCall(1, "get_balance", TokenBalanceArgs(WalletAddress, "usdc")),
     ToolCall(1, "get_balance", TokenBalanceArgs(WalletAddress, USDC_ADDRESS)),
     ToolCall(1, "get_balance", TokenBalanceArgs(WalletAddress, "NOPE")),
     ToolCall(1, "get_balance", BalanceArgs("not an address"))}

PriceLines ==
    {ToolCall(1, "get_token_price", PriceArgs("USDC")),
     ToolCall(1, "get_token_price", PriceArgs("WETH")),
     ToolCall(1, "get_token_price", QuotedPriceArgs("usdc", "eth")),
     ToolCall(1, "get_token_price", QuotedPriceArgs("WETH", "ETH")),
     ToolCall(1, "get_token_price", QuotedPriceArgs(UsdcLowercase, "ETH")),
     ToolCall(1, "get_token_price", QuotedPriceArgs(USDC_ADDRESS, "ETH")),
     ToolCall(1, "get_token_price", QuotedPriceArgs("WETH", "usd")),
     ToolCall(1, "get_token_price", QuotedPriceArgs("USDC", "EUR")),
     ToolCall(1, "get_token_price", QuotedPriceArgs("NOPE", "EUR")),
     ToolCall(1, "get_token_price", QuotedPriceArgs(USDC_ADDRESS, "eur")),
     ToolCall(1, "get_token_price", PriceArgs("NOPE"))}

SwapLines ==
    {ToolCall(1, "swap_tokens", SwapArgs("ETH", "USDC", "10", HalfPercent, WalletAddress)),
     ToolCall(2, "swap_tokens", SwapArgs("USDC", "WETH", "10", HalfPercent, WalletAddress)),
     ToolCall(1, "swap_tokens", SwapArgs("USDC", "ETH", "100", HalfPercent, WalletAddress)),
     ToolCall(1, "swap_tokens", SwapArgs("USDC", "WETH", "-1", HalfPercent, WalletAddress)),
     ToolCall(1, "swap_tokens", SwapArgs("USDC", "WETH", "10", DecOfInt(101), WalletAddress)),
     ToolCall(1, "swap_tokens", SwapArgs("USDC", "WETH", "ten", HalfPercent, WalletAddress)),
     ToolCall(1, "swap_tokens", SwapArgs("NOPE", "USDC", "10", HalfPercent, WalletAddress)),
     ToolCall(1, "swap_tokens", SwapArgs(USDC_ADDRESS, "WETH", "10", HalfPercent, WalletAddress)),
     ToolCall(1, "swap_tokens", SwapArgs("WETH", UsdcLowercase, "10", HalfPercent, WalletAddress)),
     ToolCall(1, "swap_tokens", SwapArgs("WETH", "USDC", "10", HalfPercent, WalletAddress)),
     ToolCall(1, "swap_tokens", SwapArgs("USDC", "WETH", "10", HalfPercent, "not an address"))}

Lines == DispatcherLines \cup BalanceLines \cup PriceLines \cup SwapLines

\* what two clients at once send: the second a part of what the first sends
FirstClientLines ==
    {RequestLine(1, "ping", NoneV, NoneV),
     ToolCall(1, "get_balance", BalanceArgs(WalletAddress)),
     ToolCall(1, "get_token_price", PriceArgs("USDC")),
     ToolCall(1, "get_token_price", QuotedPriceArgs("WETH", "ETH")),
     ToolCall(1, "swap_tokens", SwapArgs("USDC", "WETH", "10", HalfPercent, WalletAddress))}

SecondClientLines ==
    {RequestLine(1, "ping", NoneV, NoneV),
     ToolCall(1, "get_token_price", QuotedPriceArgs("WETH", "ETH"))}

(***************************************************************************)
(* Connections.                                                            *)
(***************************************************************************)
Conns == {1, 2}

\* what SystemTime::now() can read
MaxClock == 1
Times == 0..MaxClock

NoRequest == [jsonrpc |-> "2.0", method |-> "", params |-> [name |-> NoneV, arguments |-> NoneV],
              id |-> NoneV]
NoLocals == [k |-> [tool |-> ""]]
NoExperiment == [op |-> "none", res |-> Pending]

ServerInit ==
    /\ main_pc = "new_rpc"
    /\ slots = [s \in SlotNames |-> FALSE]
    /\ pc = [c \in Conns |-> "unconnected"]
    /\ req = [c \in Conns |-> NoRequest]
    /\ loc = [c \in Conns |-> NoLocals]
    /\ resp = [c \in Conns |-> NoneV]
    /\ trace = [c \in Conns |-> <<>>]
    /\ guards = [c \in Conns |-> {}]

\* one client, every line, every chain
Init ==
    /\ ServerInit
    /\ chain \in ChainSamples
    /\ peers = {1}
    /\ script = [c \in Conns |-> IF c = 1 THEN Lines ELSE {}]
    /\ px = NoExperiment

\* two clients at once
ConcInit ==
    /\ ServerInit
    /\ chain = OrdinaryChain
    /\ peers = Conns
    /\ script = [c \in Conns |-> IF c = 1 THEN FirstClientLines ELSE SecondClientLines]
    /\ px = NoExperiment

(***************************************************************************)
(* src/src/main.rs and McpServer::initialize.                              *)
(***************************************************************************)
\* RpcClient::new(rpc_url): the URL parses or it does not (mcp.rs line 76, main.rs 29-35)
InitializeRpc ==
    /\ main_pc = "new_rpc"
    /\ \E url_ok \in BOOLEAN : main_pc' = IF url_ok THEN "write_slots" ELSE "exited"
    /\ UNCHANGED <<px, slots, chain, peers, script, pc, req, loc, resp, trace, guards>>

\* the four writes of initialize, in their order (mcp.rs lines 78-81), each under the
\* slot's write lock, which waits for the read guards on it; after the last, bind
SlotOrder == <<"rpc_client", "balance_tool", "price_tool", "swap_tool">>

InitializeSlot ==
    /\ main_pc = "write_slots"
    /\ LET next == CHOOSE i \in 1..Len(SlotOrder) :
                       /\ ~slots[SlotOrder[i]]
                       /\ \A j \in 1..(i - 1) : slots[SlotOrder[j]]
       IN  /\ \A c \in Conns : SlotOrder[next] \notin guards[c]
           /\ slots' = [slots EXCEPT ![SlotOrder[next]] = TRUE]
           /\ main_pc' = IF next = Len(SlotOrder) THEN "listening" ELSE "write_slots"
    /\ UNCHANGED <<px, chain, peers, script, pc, req, loc, resp, trace, guards>>

\* listener.accept() and tokio::spawn(handle_connection) (main.rs lines 44-53)
Accept(c) ==
    /\ main_pc = "listening"
    /\ c \in peers
    /\ pc[c] = "unconnected"
    /\ pc' = [pc EXCEPT ![c] = "reading"]
    /\ UNCHANGED <<px, main_pc, slots, chain, peers, script, req, loc, resp, trace, guards>>

\* lines 225, 249, 273: the guard of `self.<slot>.read().await`, bound to a local that
\* lives until handle_tool_call returns, the tool's awaits included
read_guard(tool_name) == {SlotOf(tool_name)}

\* the handler of connection c goes on as k says: it suspends at its next gateway
\* call, or writes its response line and reads on, or unwinds (the task ends and the
\* socket is dropped)
Resume(c, request, k) ==
    IF k.pc = "panicked"
    THEN /\ pc' = [pc EXCEPT ![c] = "panicked"]
         /\ loc' = [loc EXCEPT ![c] = NoLocals]
         /\ resp' = [resp EXCEPT ![c] = NoneV]
         /\ guards' = [guards EXCEPT ![c] = {}]
    ELSE IF k.pc \in {"respond", "return"}
    THEN /\ pc' = [pc EXCEPT ![c] = "reading"]
         /\ loc' = [loc EXCEPT ![c] = NoLocals]
         /\ resp' = [resp EXCEPT ![c] =
                        Some(response_of(request,
                                         IF k.pc = "respond" THEN k.out
                                         ELSE tool_outcome(request.params.name.val, k.ret)))]
         /\ guards' = [guards EXCEPT ![c] = {}]
    ELSE /\ pc' = [pc EXCEPT ![c] = k.pc]
         /\ loc' = [loc EXCEPT ![c] = k.loc]
         /\ resp' = [resp EXCEPT ![c] = NoneV]
         /\ guards' = [guards EXCEPT ![c] = read_guard(request.params.name.val)]

\* handle_connection, one turn of its loop up to the first gateway call (main.rs 64-108)
ReadLine(c) ==
    /\ pc[c] = "reading"
    /\ \E line \in script[c] :
          IF line.kind = "empty" THEN UNCHANGED <<pc, req, loc, resp, trace, guards>>
          ELSE IF line.kind = "garbage"
          THEN /\ req' = [req EXCEPT ![c] = NoRequest]
               /\ resp' = [resp EXCEPT ![c] = Some(parse_error_response)]
               /\ trace' = [trace EXCEPT ![c] = <<>>]
               /\ UNCHANGED <<pc, loc, guards>>
          ELSE /\ req' = [req EXCEPT ![c] = line.request]
               /\ trace' = [trace EXCEPT ![c] = <<>>]
               /\ Resume(c, line.request, handle_request(line.request, slots))
    /\ UNCHANGED <<px, main_pc, slots, chain, peers, script>>

\* read_line returns 0: the client has closed (main.rs line 64)
Disconnect(c) ==
    /\ pc[c] = "reading"
    /\ pc' = [pc EXCEPT ![c] = "closed"]
    /\ UNCHANGED <<px, main_pc, slots, chain, peers, script, req, loc, resp, trace, guards>>

\* the gateway answers ans to the call the handler of c awaits, and the handler goes on
Gateway(c, call, ans, k) ==
    /\ chain' = call.chain
    /\ trace' = [trace EXCEPT ![c] = Append(@, [prim |-> call.prim, ans |-> ans])]
    /\ Resume(c, req[c], k)
    /\ UNCHANGED <<px, main_pc, slots, peers, script, req>>

(***************************************************************************)
(* One action per gateway call of the tools.                               *)
(***************************************************************************)
BalanceNative(c) ==
    /\ pc[c] = "BalanceNative"
    /\ LET call == get_eth_balance(chain, loc[c].wallet_address)
       IN  \E ans \in call.answers : Gateway(c, call, ans, after_eth_balance(loc[c], ans))

BalanceSymbol(c) ==
    /\ pc[c] = "BalanceSymbol"
    /\ LET call == get_token_symbol(chain, loc[c].token_address)
       IN  \E ans \in call.answers : Gateway(c, call, ans, after_balance_symbol(loc[c], ans))

BalanceDecimals(c) ==
    /\ pc[c] = "BalanceDecimals"
    /\ LET call == get_token_decimals(chain, loc[c].token_address)
       IN  \E ans \in call.answers : Gateway(c, call, ans, after_balance_decimals(loc[c], ans))

BalanceOf(c) ==
    /\ pc[c] = "BalanceOf"
    /\ LET call == get_token_balance(chain, loc[c].token_address, loc[c].wallet_address)
       IN  \E ans \in call.answers : Gateway(c, call, ans, after_token_balance(loc[c], ans))

PriceSymbol(c) ==
    /\ pc[c] = "PriceSymbol"
    /\ LET call == get_token_symbol(chain, loc[c].token_address)
       IN  \E ans \in call.answers, now \in Times :
               Gateway(c, call, ans, after_price_symbol(loc[c], ans, now))

PoolGetPair(c) ==
    /\ pc[c] = "PoolGetPair"
    /\ LET call == getPair(chain, loc[c].pool_token, loc[c].quote_token)
       IN  \E ans \in call.answers : Gateway(c, call, ans, after_get_pair(loc[c], ans))

PoolGetReserves(c) ==
    /\ pc[c] = "PoolGetReserves"
    /\ LET call == getReserves(chain, loc[c].pair_address)
       IN  \E ans \in call.answers : Gateway(c, call, ans, after_get_reserves(loc[c], ans))

PoolToken0(c) ==
    /\ pc[c] = "PoolToken0"
    /\ LET call == token0(chain, loc[c].pair_address)
       IN  \E ans \in call.answers : Gateway(c, call, ans, after_token0(loc[c], ans))

PoolTokenDecimals(c) ==
    /\ pc[c] = "PoolTokenDecimals"
    /\ LET call == get_token_decimals(chain, loc[c].pool_token)
       IN  \E ans \in call.answers : Gateway(c, call, ans, after_token_decimals(loc[c], ans))

PoolQuoteDecimals(c) ==
    /\ pc[c] = "PoolQuoteDecimals"
    /\ LET call == get_token_decimals(chain, loc[c].quote_token)
       IN  \E ans \in call.answers, now \in Times :
               Gateway(c, call, ans, after_quote_decimals(loc[c], ans, now))

SwapFromDecimals(c) ==
    /\ pc[c] = "SwapFromDecimals"
    /\ LET call == get_token_decimals(chain, loc[c].from_token)
       IN  \E ans \in call.answers : Gateway(c, call, ans, after_from_decimals(loc[c], ans))

SwapToDecimals(c) ==
    /\ pc[c] = "SwapToDecimals"
    /\ LET call == get_token_decimals(chain, loc[c].to_token)
       IN  \E ans \in call.answers : Gateway(c, call, ans, after_to_decimals(loc[c], ans))

SwapGetAmountsOut(c) ==
    /\ pc[c] = "SwapGetAmountsOut"
    /\ LET call == get_amounts_out(chain, loc[c].amount_in_u256,
                                   <<loc[c].from_token, loc[c].to_token>>)
       IN  \E ans \in call.answers : Gateway(c, call, ans, after_get_amounts_out(loc[c], ans))

SwapGasPrice(c) ==
    /\ pc[c] = "SwapGasPrice"
    /\ LET call == get_gas_price(chain)
       IN  \E ans \in call.answers : Gateway(c, call, ans, after_gas_price(loc[c], ans))

\* the transaction simulate_swap_exact_tokens_for_tokens builds (rpc/client.rs 285-293)
SwapTx(l) ==
    [from |-> l.wallet_address, to |-> router_address, amount_in |-> l.amount_in_u256,
     amount_out_min |-> l.min_output_u256, path |-> <<l.from_token, l.to_token>>]

SwapEstimateGas(c) ==
    /\ pc[c] = "SwapEstimateGas"
    /\ LET call == estimate_gas(chain, SwapTx(loc[c]))
       IN  \E ans \in call.answers : Gateway(c, call, ans, after_estimate_gas(loc[c], ans))

SwapCall(c) ==
    /\ pc[c] = "SwapCall"
    /\ LET call == simulate_swap_exact_tokens_for_tokens(chain, SwapTx(loc[c]))
       IN  \E ans \in call.answers : Gateway(c, call, ans, after_swap_call(loc[c], ans))

ToolStep(c) ==
    \/ BalanceNative(c) \/ BalanceSymbol(c) \/ BalanceDecimals(c) \/ BalanceOf(c)
    \/ PriceSymbol(c) \/ PoolGetPair(c) \/ PoolGetReserves(c) \/ PoolToken0(c)
    \/ PoolTokenDecimals(c) \/ PoolQuoteDecimals(c)
    \/ SwapFromDecimals(c) \/ SwapToDecimals(c) \/ SwapGetAmountsOut(c)
    \/ SwapGasPrice(c) \/ SwapEstimateGas(c) \/ SwapCall(c)

Next ==
    \/ InitializeRpc
    \/ InitializeSlot
    \/ \E c \in Conns : Accept(c) \/ ReadLine(c) \/ Disconnect(c) \/ ToolStep(c)

Spec == Init /\ [][Next]_vars

(***************************************************************************)
(* McpServer as a library object: a caller invokes handle_request on a     *)
(* server that was never initialised, whose initialize failed, or whose    *)
(* initialize succeeded.                                                   *)
(***************************************************************************)
LibInit ==
    /\ main_pc = "new_rpc"
    /\ slots = [s \in SlotNames |-> FALSE]
    /\ pc = [c \in Conns |-> IF c = 1 THEN "reading" ELSE "unconnected"]
    /\ req = [c \in Conns |-> NoRequest]
    /\ loc = [c \in Conns |-> NoLocals]
    /\ resp = [c \in Conns |-> NoneV]
    /\ trace = [c \in Conns |-> <<>>]
    /\ guards = [c \in Conns |-> {}]
    /\ chain = OrdinaryChain
    /\ peers = {1}
    /\ script = [c \in Conns |-> IF c = 1 THEN Lines ELSE {}]
    /\ px = NoExperiment

\* handle_request(request), called while no initialize is under way
Call(c) ==
    /\ main_pc # "write_slots"
    /\ ReadLine(c)

LibNext ==
    \/ InitializeRpc
    \/ InitializeSlot
    \/ \E c \in Conns : Call(c) \/ ToolStep(c)

LibSpec == LibInit /\ [][LibNext]_vars

ConcSpec == ConcInit /\ [][Next]_vars

(***************************************************************************)
(* The precision engine on its own: an experiment px applies one of the    *)
(* three functions to inputs drawn from the sample sets below.             *)
(***************************************************************************)
MaxSmallRaw == 12

RawSamples ==
    {BigOf(n) : n \in 0..MaxSmallRaw}
    \cup {Pow10(6), Pow10(18), BigShl(BigOf(123456), 15), BigOf(1234567),
          MantissaMax, BigAdd(MantissaMax, BigOne), U128Max, U256Max}

\* decimals a token can report (u8): every value up to MaxDecimalsSample, and the largest
MaxDecimalsSample == 30
Decimals == (0..MaxDecimalsSample) \cup {U8Max}

\* 0, 1, 100, 990, 1000, 123.456, 0.5, 0.000001, 10^-28, the largest Decimal,
\* the largest mantissa at scale 28, -1, -0.5
DecimalSamples ==
    {DecZero, DecOne, DecHundred, DecOfInt(990), DecOfInt(1000),
     MkDec(FALSE, BigOf(123456), 3), MkDec(FALSE, BigOf(5), 1),
     MkDec(FALSE, BigOne, 6), MkDec(FALSE, BigOne, MaxScale),
     MkDec(FALSE, MantissaMax, 0), MkDec(FALSE, MantissaMax, MaxScale),
     DecOfInt(-1), MkDec(TRUE, BigOf(5), 1)}

\* 0, 0.5, 1, 33.333, 50, 100, 10^-27, 100.01, 101, -0.5
SlippageSamples ==
    {DecZero, MkDec(FALSE, BigOf(5), 1), DecOne, MkDec(FALSE, BigOf(33333), 3),
     DecOfInt(50), DecHundred, MkDec(FALSE, BigOne, MaxScale - 1),
     MkDec(FALSE, BigOf(10001), 2), DecOfInt(101), MkDec(TRUE, BigOf(5), 1)}

PrecInputs ==
    {[op |-> "to_decimal", raw |-> r, decimals |-> d, res |-> Pending] :
        r \in RawSamples, d \in Decimals}
    \cup {[op |-> "from_decimal", value |-> v, decimals |-> d, res |-> Pending] :
        v \in DecimalSamples, d \in Decimals}
    \cup {[op |-> "roundtrip", raw |-> r, decimals |-> d, res |-> Pending] :
        r \in RawSamples, d \in Decimals}
    \cup {[op |-> "slippage", expected |-> x, slippage |-> sl, res |-> Pending] :
        x \in DecimalSamples, sl \in SlippageSamples}

PrecInit ==
    /\ px \in PrecInputs
    /\ ServerInit
    /\ chain = OrdinaryChain
    /\ peers = {}
    /\ script = [c \in Conns |-> {}]

ApplyToDecimal ==
    /\ px.op = "to_decimal" /\ px.res = Pending
    /\ px' = [px EXCEPT !.res = to_decimal(px.raw, px.decimals)]
    /\ UNCHANGED server_vars

ApplyFromDecimal ==
    /\ px.op = "from_decimal" /\ px.res = Pending
    /\ px' = [px EXCEPT !.res = from_decimal(px.value, px.decimals)]
    /\ UNCHANGED server_vars

\* from_decimal(to_decimal(raw, d)?, d)
ApplyRoundTrip ==
    /\ px.op = "roundtrip" /\ px.res = Pending
    /\ LET converted == to_decimal(px.raw, px.decimals)
       IN  px' = [px EXCEPT !.res =
                     IF converted.tag = "Ok"
                     THEN from_decimal(converted.val, px.decimals)
                     ELSE converted]
    /\ UNCHANGED server_vars

ApplySlippage ==
    /\ px.op = "slippage" /\ px.res = Pending
    /\ px' = [px EXCEPT !.res =
                 calculate_min_output_with_slippage(px.expected, px.slippage)]
    /\ UNCHANGED server_vars

PrecNext == ApplyToDecimal \/ ApplyFromDecimal \/ ApplyRoundTrip \/ ApplySlippage

PrecSpec == PrecInit /\ [][PrecNext]_vars


(***************************************************************************)
(* Exact arithmetic, against which the precision engine is judged: the     *)
(* value  m / 10^s  of an unbounded mantissa and scale.                    *)
(***************************************************************************)
\* the Decimal v is exactly  m / 10^s  (signed by neg)
DecIsExactly(v, neg, m, s) ==
    /\ BigShl(v.m, s) = BigShl(m, v.s)
    /\ m # <<>> => v.neg = neg

\* m / 10^s is a value of the Decimal format
Representable(m, s) ==
    \/ m = <<>>
    \/ /\ StripZeros(m, s).s <= MaxScale
       /\ BigLe(StripZeros(m, s).m, MantissaMax)

PxDone(op) == px.op = op /\ px.res # Pending

(***************************************************************************)
(* C4.  Round trip: for every decimals d in [0, 30] and every raw in       *)
(* [0, 2^256) such that raw / 10^d leaves no remainder (read in the        *)
(* narrowest way: raw is a multiple of 10^d),                              *)
(* from_decimal(to_decimal(raw, d), d) = Ok(raw).                          *)
(***************************************************************************)
C4_RoundTripReturnsRaw ==
    (/\ PxDone("roundtrip")
     /\ px.decimals <= 30
     /\ BigShl(BigShr(px.raw, px.decimals), px.decimals) = px.raw)
    => px.res = Ok(px.raw)

(***************************************************************************)
(* C5.  to_decimal(raw, d) returns Ok(raw / 10^d), exactly, for every raw  *)
(* in [0, 2^256) and every decimals d in 0..255: no error, no panic.       *)
(***************************************************************************)
C5_ToDecimalNeverFails ==
    PxDone("to_decimal")
    => /\ px.res.tag = "Ok"
       /\ DecIsExactly(px.res.val, FALSE, px.raw, px.decimals)

(***************************************************************************)
(* C6.  from_decimal(value, d), for every value and every d in 0..255,     *)
(* returns Ok(r) with 0 <= value * 10^d - r < 1 or a PrecisionError, and   *)
(* a PrecisionError for every negative value and for every product that    *)
(* does not fit the integer type.                                          *)
(***************************************************************************)
C6_FromDecimalOkOrPrecisionError ==
    PxDone("from_decimal")
    => /\ \/ /\ px.res.tag = "Ok"
             /\ ~px.value.neg
             \* r = floor(value * 10^d)
             /\ px.res.val = BigShr(BigShl(px.value.m, px.decimals), px.value.s)
          \/ /\ px.res.tag = "Err"
             /\ px.res.kind = "PrecisionError"
       /\ px.value.neg => px.res.tag = "Err"
       /\ ~BigLe(BigShr(BigShl(px.value.m, px.decimals), px.value.s), U256Max)
            => px.res.tag = "Err"

(***************************************************************************)
(* C7.  calculate_min_output_with_slippage(x, s) returns x * (1 - s/100)   *)
(* for every s in [0, 100], and a PrecisionError for s < 0 or s > 100,     *)
(* for all x.                                                              *)
(***************************************************************************)
SlippageInRange(sl) == ~DecLt(sl, DecZero) /\ ~DecLt(DecHundred, sl)

\* x * (1 - s/100) = x.m * (100 * 10^s.s - s.m) / 10^(x.s + s.s + 2), for s in [0, 100]
ExactMinOutputMantissa(x, sl) == BigMul(x.m, BigSub(BigShl(BigOf(100), sl.s), sl.m))
ExactMinOutputScale(x, sl) == x.s + sl.s + 2

SlippageRejected ==
    px.res = Err("PrecisionError", "Slippage must be between 0 and 100")

Responded(c) == resp[c].tag = "Some"

\* the handler of c is suspended at a gateway call
Suspended(c) == pc[c] \notin {"unconnected", "reading", "closed", "panicked"}

\* the request in hand invokes the tool with an argument bag
IsToolCall(c, tool_name) ==
    /\ req[c].method = "tools/call"
    /\ req[c].params.name.tag = "Some"
    /\ req[c].params.name.val = tool_name
    /\ req[c].params.arguments.tag = "Some"

ArgumentsOf(c) == req[c].params.arguments.val

\* the response carries a result, which is a quote
HasQuote(c) == Responded(c) /\ resp[c].val.result.tag = "Some"

QuoteOf(c) == resp[c].val.result.val

ReadOnlyPrimitives ==
    {"eth_getBalance", "eth_call balanceOf", "eth_call decimals", "eth_call symbol",
     "eth_call getPair", "eth_call getReserves", "eth_call token0",
     "eth_call getAmountsOut", "eth_gasPrice", "eth_estimateGas",
     "eth_call swapExactTokensForTokens"}

\* C1: whatever the requests and the gateway's answers, every step leaves the chain
\* (balances, nonce, pending transactions) as it was, and every gateway primitive
\* invoked for the request in hand is a read-only one.
C1_OnlyReadOnlyPrimitives ==
    [][/\ chain' = chain
       /\ \A c \in Conns : \A i \in 1..Len(trace'[c]) :
              trace'[c][i].prim \in ReadOnlyPrimitives]_vars

\* a swap simulated to its end: the swap call was made and the quote is a success
C1_Witness ==
    \E c \in Conns :
        /\ IsToolCall(c, "swap_tokens")
        /\ HasQuote(c)
        /\ QuoteOf(c).simulation_success
        /\ trace[c] # <<>>
        /\ trace[c][Len(trace[c])].prim = "eth_call swapExactTokensForTokens"
        /\ chain.nonce = 0

\* C2: no handler is aborted by a computation fault, and a response to a request
\* carries the request's id and exactly one of result and error.
C2_EveryRequestAnswered ==
    \A c \in Conns :
        /\ pc[c] # "panicked"
        /\ (Responded(c) /\ req[c].id.tag = "Some") =>
               /\ resp[c].val.id = req[c].id
               /\ (resp[c].val.result.tag = "Some") # (resp[c].val.error.tag = "Some")

\* C3, as stated: two responses to the same request, the gateway having answered the
\* same calls in the same way, are the same response.
C3_ResponseFunctionOfRequestAndAnswers ==
    \A c, d \in Conns :
        (Responded(c) /\ Responded(d) /\ req[c] = req[d] /\ trace[c] = trace[d])
            => resp[c] = resp[d]

\* the response with the reading of the clock, if it carries one, blanked
SansTimestamp(response) ==
    IF response.result.tag = "Some" /\ "timestamp" \in DOMAIN response.result.val
    THEN [response EXCEPT !.result.val.timestamp = 0]
    ELSE response

\* C3, amended: two responses to the same request, the gateway having answered the
\* same calls in the same way, differ at most in the timestamp of a price, whatever
\* the other connection was doing or had done.
C3_ResponseFunctionUpToTimestamp ==
    \A c, d \in Conns :
        (Responded(c) /\ Responded(d) /\ req[c] = req[d] /\ trace[c] = trace[d])
            => SansTimestamp(resp[c].val) = SansTimestamp(resp[d].val)

\* two connections hold responses to the same price request, the gateway having
\* answered both alike, and the responses differ
C3_Witness ==
    /\ Responded(1) /\ Responded(2)
    /\ IsToolCall(1, "get_token_price")
    /\ req[1] = req[2]
    /\ trace[1] = trace[2]
    /\ trace[1] # <<>>
    /\ resp[1] # resp[2]

\* C8: a swap_tokens call is answered with a result, never a JSON-RPC error, and the
\* result of a simulation that did not succeed carries an error string.
C8_StageFailureIsFailedQuote ==
    \A c \in Conns :
        (Responded(c) /\ IsToolCall(c, "swap_tokens")) =>
            /\ resp[c].val.error.tag = "None"
            /\ resp[c].val.result.tag = "Some"
            /\ (~QuoteOf(c).simulation_success => QuoteOf(c).error.tag = "Some")

\* the amounts of the requests that are numbers
NumericAmounts == {"10", "100", "-1"}

\* the request in hand is a swap whose tokens resolve, whose wallet address is well
\* formed and whose amount is no number
NonNumericSwap(c) ==
    /\ IsToolCall(c, "swap_tokens")
    /\ resolve_token(ArgumentsOf(c).from_token).tag = "Ok"
    /\ resolve_token(ArgumentsOf(c).to_token).tag = "Ok"
    /\ parse_address(ArgumentsOf(c).wallet_address).tag = "Some"
    /\ ArgumentsOf(c).amount \notin NumericAmounts

\* C9: a swap whose tokens resolve and whose wallet address is well formed, with an
\* amount that is no number, is answered at once, before any gateway call, with a
\* failed quote: an amount-format error and zero figures.
C9_NonNumericAmountIsFailedQuote ==
    \A c \in Conns :
        NonNumericSwap(c) =>
            /\ ~Suspended(c)
            /\ pc[c] # "panicked"
            /\ trace[c] = <<>>
            /\ Responded(c)
            /\ resp[c].val =
                   JsonRpcResponse(
                       Some(SwapResponse(ArgumentsOf(c), DecZero, DecZero, DecZero, FALSE,
                                         Some([text  |-> "invalid amount format",
                                               cause |-> NoneV]))),
                       NoneV, req[c].id)

C9_Witness ==
    \E c \in Conns :
        /\ NonNumericSwap(c)
        /\ HasQuote(c)
        /\ ~QuoteOf(c).simulation_success
        /\ QuoteOf(c).input_amount = "ten"

\* the wallet's balance of from_token per its resolution: the native balance for the
\* native asset, the contract's balanceOf otherwise
FromTokenBalance(request) ==
    IF is_eth(request.from_token) THEN to_decimal(chain.native, ETH_DECIMALS)
    ELSE to_decimal(chain.tokens[resolve_token(request.from_token).val].balance,
                    chain.tokens[resolve_token(request.from_token).val].decimals)

\* the quote is the failed one of the balance pre-check
IsInsufficientBalanceQuote(c) ==
    /\ HasQuote(c)
    /\ ~QuoteOf(c).simulation_success
    /\ QuoteOf(c).error.tag = "Some"
    /\ QuoteOf(c).error.val.text = "insufficient balance"

\* C10: a swap is refused for its balance only when the wallet's balance of from_token
\* is strictly less than the input amount (with a balance at least the input the
\* pipeline continues), and the refusal names both figures and comes before any
\* query of the router.
C10_RefusedOnlyBelowInput ==
    \A c \in Conns :
        (IsToolCall(c, "swap_tokens") /\ IsInsufficientBalanceQuote(c)) =>
            /\ FromTokenBalance(ArgumentsOf(c)).tag = "Ok"
            /\ DecLt(FromTokenBalance(ArgumentsOf(c)).val,
                     parse_decimal(ArgumentsOf(c).amount).val)
            /\ {"available", "required"} \subseteq DOMAIN QuoteOf(c).error.val
            /\ \A i \in 1..Len(trace[c]) :
                   trace[c][i].prim \notin {"eth_call getAmountsOut", "eth_estimateGas",
                                            "eth_call swapExactTokensForTokens"}

\* the handler of c is suspended inside the balance tool
InBalanceTool(c) ==
    pc[c] \in {"BalanceNative", "BalanceSymbol", "BalanceDecimals", "BalanceOf"}

\* C11: the balance pre-check of a swap reads the balance of from_token per its
\* resolution: for the native asset ("ETH" or the native marker) it reads the wallet's
\* native balance, for a contract token that token's balanceOf, and the figure named
\* in a refusal is that balance; the wrapped address serves the routing only.
C11_PreCheckReadsFromTokenBalance ==
    \A c \in Conns :
        IsToolCall(c, "swap_tokens") =>
            /\ InBalanceTool(c) =>
                   IF is_eth(ArgumentsOf(c).from_token)
                   THEN pc[c] = "BalanceNative"
                   ELSE /\ pc[c] # "BalanceNative"
                        /\ loc[c].token_address
                               = resolve_token(ArgumentsOf(c).from_token).val
            /\ (IsInsufficientBalanceQuote(c) /\ FromTokenBalance(ArgumentsOf(c)).tag = "Ok")
                   => QuoteOf(c).error.val.available = FromTokenBalance(ArgumentsOf(c)).val

\* the balance pre-check of the swap in hand has just failed: the gateway's last
\* answer, to the pre-check's decimals or balanceOf call, is an error
PreCheckJustFailed(c) ==
    /\ IsToolCall(c, "swap_tokens")
    /\ Len(trace[c]) \in {2, 3}
    /\ trace[c][1].prim = "eth_call symbol"
    /\ trace[c][Len(trace[c])].ans.tag = "Err"
    /\ Len(trace[c]) = 3 => trace[c][3].prim = "eth_call balanceOf"

\* the pre-check of the swap in hand failed at some point
PreCheckFailed(c) ==
    /\ IsToolCall(c, "swap_tokens")
    /\ Len(trace[c]) >= 2
    /\ trace[c][1].prim = "eth_call symbol"
    /\ \/ trace[c][2].ans.tag = "Err"
       \/ /\ Len(trace[c]) >= 3
          /\ trace[c][3].prim = "eth_call balanceOf"
          /\ trace[c][3].ans.tag = "Err"

\* where a swap stands once its balance is found sufficient
StageAfterBalance(request) ==
    IF ~is_eth(request.from_token) THEN "SwapFromDecimals"
    ELSE IF ~is_eth(request.to_token) THEN "SwapToDecimals"
    ELSE "SwapGetAmountsOut"

\* C12: when the balance pre-check of a swap fails (the gateway errs on the decimals
\* or the balance; an error on the symbol does not even fail the pre-check), the
\* simulation goes on to the stage that follows a sufficient balance, with the
\* request unchanged, and its quote is never a refusal on account of the balance.
C12_FailedPreCheckProceeds ==
    \A c \in Conns :
        /\ PreCheckJustFailed(c) =>
               /\ ~Responded(c)
               /\ pc[c] = StageAfterBalance(ArgumentsOf(c))
               /\ loc[c].request = ArgumentsOf(c)
               /\ loc[c].input_amount_decimal = parse_decimal(ArgumentsOf(c).amount).val
        /\ (PreCheckFailed(c) /\ Responded(c)) =>
               /\ HasQuote(c)
               /\ ~IsInsufficientBalanceQuote(c)
        /\ (IsToolCall(c, "swap_tokens") /\ Len(trace[c]) >= 2
            /\ trace[c][1].ans.tag = "Err" /\ trace[c][2].ans.tag = "Ok")
               => pc[c] # "return" /\ (Len(trace[c]) = 2 => pc[c] = "BalanceOf")

\* a swap whose pre-check could not read the decimals was simulated to a success
C12_Witness ==
    \E c \in Conns :
        /\ PreCheckFailed(c)
        /\ trace[c][2].ans.tag = "Err"
        /\ HasQuote(c)
        /\ QuoteOf(c).simulation_success
        /\ QuoteOf(c).error.tag = "None"

\* the response is the quote of a swap simulated to its end
IsSuccessfulQuote(c) ==
    /\ IsToolCall(c, "swap_tokens")
    /\ HasQuote(c)
    /\ QuoteOf(c).simulation_success

\* the amounts the router answered for the swap in hand
RouterAmounts(c) ==
    LET i == CHOOSE j \in 1..Len(trace[c]) : trace[c][j].prim = "eth_call getAmountsOut"
    IN  trace[c][i].ans.val

\* the decimals of the token a swap buys: 18 for the native asset, the contract's otherwise
ToDecimals(request) ==
    IF is_eth(request.to_token) THEN ETH_DECIMALS
    ELSE chain.tokens[resolve_token(request.to_token).val].decimals

\* the Decimal v is  m / 10^s  to within one unit of the last digit of the format
WithinLastDigit(v, m, s) ==
    LET w == MaxOf(MaxOf(s, v.s), MaxScale)
        a == BigShl(v.m, w - v.s)
        b == BigShl(m, w - s)
    IN  IF BigLe(a, b) THEN BigLe(BigSub(b, a), Pow10(w - MaxScale))
        ELSE BigLe(BigSub(a, b), Pow10(w - MaxScale))

\* what C13 says of every successful quote but the minimum output
QuoteEchoesRequest(c) ==
    /\ DecIsExactly(QuoteOf(c).estimated_output, FALSE,
                    RouterAmounts(c)[Len(RouterAmounts(c))], ToDecimals(ArgumentsOf(c)))
    /\ QuoteOf(c).error.tag = "None"
    /\ QuoteOf(c).from_token = ArgumentsOf(c).from_token
    /\ QuoteOf(c).to_token = ArgumentsOf(c).to_token
    /\ QuoteOf(c).input_amount = ArgumentsOf(c).amount

AnswerTo(c, prim) ==
    LET i == CHOOSE j \in 1..Len(trace[c]) : trace[c][j].prim = prim
    IN  trace[c][i].ans

Asked(c, prim) == \E j \in 1..Len(trace[c]) : trace[c][j].prim = prim

\* the router-call simulation of the swap in hand failed: estimateGas or the eth_call
RouterSimulationFailed(c) ==
    \/ Asked(c, "eth_estimateGas") /\ AnswerTo(c, "eth_estimateGas").tag = "Err"
    \/ /\ Asked(c, "eth_call swapExactTokensForTokens")
       /\ AnswerTo(c, "eth_call swapExactTokensForTokens").tag = "Err"

\* the gas estimate and the gas price a quote is costed with
GasEstimateOf(c) ==
    IF RouterSimulationFailed(c) THEN DEFAULT_GAS_ESTIMATE
    ELSE AnswerTo(c, "eth_estimateGas").val

GasPriceOf(c) ==
    IF AnswerTo(c, "eth_gasPrice").tag = "Ok" THEN AnswerTo(c, "eth_gasPrice").val
    ELSE DEFAULT_GAS_PRICE

\* C14: a failure of the router-call simulation (estimateGas or eth_call) does not
\* fail the swap: the quote is returned at once as a success, costed with the default
\* estimate of 150000; and in every successful quote gas_cost_eth is exactly
\* gasEstimate * gasPrice / 10^18, whatever the u64 estimate and the u128 gas price.
C14_GasCostIsEstimateTimesPrice ==
    \A c \in Conns :
        /\ (IsToolCall(c, "swap_tokens") /\ RouterSimulationFailed(c))
               => IsSuccessfulQuote(c)
        /\ IsSuccessfulQuote(c) =>
               DecIsExactly(QuoteOf(c).gas_cost_eth, FALSE,
                            BigMul(GasEstimateOf(c), GasPriceOf(c)), ETH_DECIMALS)

\* the spellings of the native asset: the symbol and the marker address, in the
\* letter cases the requests use
NativeSpellings == {"ETH", "eth", "Eth", ETH_IDENTIFIER, EthLowercase}

\* the request in hand asks get_balance, for a well-formed wallet address, about the
\* native asset: no token, or one of its spellings
AsksNativeBalance(c) ==
    /\ IsToolCall(c, "get_balance")
    /\ "address" \in DOMAIN ArgumentsOf(c)
    /\ ArgumentsOf(c).address = WalletAddress
    /\ "token_address" \in DOMAIN ArgumentsOf(c)
           => ArgumentsOf(c).token_address \in NativeSpellings

\* C15: token resolution gives the one native identity (is_eth, symbol "ETH", the
\* marker address) when the identifier is absent, is "ETH" in any letter case, or is
\* the marker address in any letter case, and calls the gateway for none of it: the
\* only call such a balance request makes is the native balance read, and its answer
\* names the token "ETH" at the marker address with 18 decimals.
C15_NativeIdentityWithoutGateway ==
    \A c \in Conns :
        AsksNativeBalance(c) =>
            /\ pc[c] \notin {"BalanceSymbol", "BalanceDecimals", "BalanceOf", "panicked"}
            /\ Len(trace[c]) <= 1
            /\ \A i \in 1..Len(trace[c]) : trace[c][i].prim = "eth_getBalance"
            /\ (Responded(c) \/ pc[c] = "BalanceNative")
            /\ Responded(c) => trace[c] # <<>>
            /\ HasQuote(c) =>
                   /\ QuoteOf(c).token_type = "ETH"
                   /\ QuoteOf(c).token_address = ETH_IDENTIFIER
                   /\ QuoteOf(c).decimals = ETH_DECIMALS
                   /\ QuoteOf(c).raw = chain.native

\* a balance asked for the marker address in lowercase was answered as the native one
C15_Witness ==
    \E c \in Conns :
        /\ AsksNativeBalance(c)
        /\ "token_address" \in DOMAIN ArgumentsOf(c)
        /\ ArgumentsOf(c).token_address = EthLowercase
        /\ HasQuote(c)
        /\ QuoteOf(c).token_type = "ETH"
        /\ trace[c][1].prim = "eth_getBalance"

\* the spellings of a registered symbol, and of its contract address
UsdcSymbolSpellings == {"USDC", "usdc", "Usdc"}
UsdcAddressSpellings == {USDC_ADDRESS, UsdcLowercase}

\* the request in hand asks get_balance, for a well-formed wallet address, about USDC
AsksUsdcBalance(c, spellings) ==
    /\ IsToolCall(c, "get_balance")
    /\ "address" \in DOMAIN ArgumentsOf(c)
    /\ ArgumentsOf(c).address = WalletAddress
    /\ "token_address" \in DOMAIN ArgumentsOf(c)
    /\ ArgumentsOf(c).token_address \in spellings

UnknownIdentifiers == {"NOPE"}

\* the request in hand asks the balance or the price of an unknown identifier (the
\* wallet address well formed, the quote currency a supported one)
AsksUnknownToken(c) ==
    \/ /\ IsToolCall(c, "get_balance")
       /\ {"address", "token_address"} \subseteq DOMAIN ArgumentsOf(c)
       /\ ArgumentsOf(c).address = WalletAddress
       /\ ArgumentsOf(c).token_address \in UnknownIdentifiers
    \/ /\ IsToolCall(c, "get_token_price")
       /\ "token_identifier" \in DOMAIN ArgumentsOf(c)
       /\ ArgumentsOf(c).token_identifier \in UnknownIdentifiers
       /\ "quote_currency" \in DOMAIN ArgumentsOf(c)
              => ArgumentsOf(c).quote_currency \in {"USD", "ETH"}

\* C17: get_balance and get_token_price answer an identifier that is no marker, no
\* well-formed address and no registered symbol with the error TokenNotFound, at
\* once: no balance, decimals, symbol, pair or reserve call goes to the gateway.
C17_UnknownIdentifierIsTokenNotFound ==
    \A c \in Conns :
        AsksUnknownToken(c) =>
            /\ ~Suspended(c)
            /\ pc[c] # "panicked"
            /\ trace[c] = <<>>
            /\ Responded(c)
            /\ resp[c].val.result.tag = "None"
            /\ resp[c].val.error.tag = "Some"
            /\ resp[c].val.error.val.cause.tag = "Some"
            /\ resp[c].val.error.val.cause.val.kind = "TokenNotFound"

\* the price of "NOPE" was answered with TokenNotFound, no call made
C17_Witness ==
    \E c \in Conns :
        /\ AsksUnknownToken(c)
        /\ IsToolCall(c, "get_token_price")
        /\ Responded(c)
        /\ trace[c] = <<>>
        /\ resp[c].val.error.val.cause.val.kind = "TokenNotFound"

\* the request in hand asks the price of USDC, named by its address, in a supported
\* quote currency
AsksUsdcPriceByAddress(c) ==
    /\ IsToolCall(c, "get_token_price")
    /\ "token_identifier" \in DOMAIN ArgumentsOf(c)
    /\ ArgumentsOf(c).token_identifier \in UsdcAddressSpellings
    /\ "quote_currency" \in DOMAIN ArgumentsOf(c)
           => ArgumentsOf(c).quote_currency \in {"USD", "ETH"}

\* the request in hand is a swap that names USDC by its address on one side, the
\* rest of it well formed
SwapsUsdcByAddress(c) ==
    /\ IsToolCall(c, "swap_tokens")
    /\ \/ /\ ArgumentsOf(c).from_token \in UsdcAddressSpellings
          /\ ArgumentsOf(c).to_token \in {"WETH", "ETH"}
       \/ /\ ArgumentsOf(c).to_token \in UsdcAddressSpellings
          /\ ArgumentsOf(c).from_token \in {"WETH", "ETH"}
    /\ ArgumentsOf(c).wallet_address = WalletAddress
    /\ ArgumentsOf(c).amount \in NumericAmounts

\* get_balance resolves the address: it fetches the symbol, goes on to the decimals
\* whatever the answer, and names the address (and "UNKNOWN" after a failed fetch)
BalanceResolvesAddress(c) ==
    AsksUsdcBalance(c, UsdcAddressSpellings) =>
        /\ InBalanceTool(c) => loc[c].token_address = USDC_ADDRESS
        /\ trace[c] = <<>> => pc[c] = "BalanceSymbol"
        /\ Len(trace[c]) = 1 => pc[c] = "BalanceDecimals"
        /\ HasQuote(c) =>
               /\ QuoteOf(c).token_address = USDC_ADDRESS
               /\ trace[c][1].ans.tag = "Err" => QuoteOf(c).token_type = "UNKNOWN"

\* get_token_price resolves the address: it suspends at the symbol fetch for that
\* address and never answers TokenNotFound
PriceResolvesAddress(c) ==
    AsksUsdcPriceByAddress(c) =>
        /\ trace[c] = <<>> => pc[c] = "PriceSymbol" /\ loc[c].token_address = USDC_ADDRESS
        /\ (Responded(c) /\ resp[c].val.error.tag = "Some") =>
               resp[c].val.error.val.cause.val.kind # "TokenNotFound"

\* swap_tokens resolves the address: it goes to the gateway and is never answered
\* with a JSON-RPC error
SwapResolvesAddress(c) ==
    SwapsUsdcByAddress(c) =>
        /\ trace[c] = <<>> => Suspended(c)
        /\ Responded(c) => resp[c].val.error.tag = "None"

\* C18: in each of the three tools (get_balance, get_token_price, swap_tokens) a
\* well-formed contract address, in checksum or in lowercase form, resolves to the
\* contract token at exactly that address, and a failed fetch of its symbol neither
\* fails the request nor changes the address.
C18_AddressResolvesInEveryTool ==
    \A c \in Conns :
        /\ BalanceResolvesAddress(c)
        /\ PriceResolvesAddress(c)
        /\ SwapResolvesAddress(c)

\* the factory answered the zero address to the i-th call of the request in hand
NoPairAt(c, i) ==
    /\ trace[c][i].prim = "eth_call getPair"
    /\ trace[c][i].ans = Ok(ZeroAddress)

\* the pair answered reserves to the i-th call of the request in hand, one of them zero
ZeroReserveAt(c, i) ==
    /\ trace[c][i].prim = "eth_call getReserves"
    /\ trace[c][i].ans.tag = "Ok"
    /\ <<>> \in {trace[c][i].ans.val.reserve0, trace[c][i].ans.val.reserve1}

\* every call of the request in hand from the i-th on was answered
AnsweredFrom(c, i) == \A j \in i..Len(trace[c]) : trace[c][j].ans.tag = "Ok"

\* the response is the error PriceOracleError with one of the messages
IsPriceOracleError(c, messages) ==
    /\ Responded(c)
    /\ resp[c].val.result.tag = "None"
    /\ resp[c].val.error.tag = "Some"
    /\ resp[c].val.error.val.cause.tag = "Some"
    /\ resp[c].val.error.val.cause.val.kind = "PriceOracleError"
    /\ resp[c].val.error.val.cause.val.msg \in messages

AsksSpotPrice(c) ==
    /\ IsToolCall(c, "get_token_price")
    /\ "token_identifier" \in DOMAIN ArgumentsOf(c)
    /\ \/ /\ ArgumentsOf(c).token_identifier \in UsdcSymbolSpellings
          /\ "quote_currency" \in DOMAIN ArgumentsOf(c)
          /\ ArgumentsOf(c).quote_currency \in {"ETH", "eth"}
       \/ /\ ArgumentsOf(c).token_identifier \in {"WETH", "weth"}
          /\ "quote_currency" \notin DOMAIN ArgumentsOf(c)

\* the priced token and the quote asset of that request
PricedToken(c) ==
    IF ArgumentsOf(c).token_identifier \in UsdcSymbolSpellings THEN USDC_ADDRESS
    ELSE WETH_ADDRESS

QuoteAsset(c) ==
    IF ArgumentsOf(c).token_identifier \in UsdcSymbolSpellings THEN WETH_ADDRESS
    ELSE USDC_ADDRESS

\* the pool's reserve of a token: reserve0 if it is the pool's token0, reserve1 if not
ReserveOf(token) ==
    IF chain.pool.token0 = token THEN chain.pool.reserve0 ELSE chain.pool.reserve1

\* (reserveOfQuote / 10^quoteDecimals) / (reserveOfToken / 10^tokenDecimals) as a
\* fraction of integers
SpotNumerator(c) == BigShl(ReserveOf(QuoteAsset(c)), chain.tokens[PricedToken(c)].decimals)
SpotDenominator(c) == BigShl(ReserveOf(PricedToken(c)), chain.tokens[QuoteAsset(c)].decimals)

\* the Decimal v is exactly the fraction n / d
DecIsFraction(v, n, d) == BigMul(v.m, d) = BigShl(n, v.s)

\* the fraction n / d has at most 28 fractional digits
Terminates(n, d) == BigDivMod(BigShl(n, MaxScale), d)[2] = <<>>

\* the Decimal v is the fraction n / d to within one unit of the 28th fractional digit
DecIsFractionRounded(v, n, d) ==
    LET a == BigMul(BigShl(v.m, MaxScale - v.s), d)
        b == BigShl(n, MaxScale)
    IN  IF BigLe(a, b) THEN BigLe(BigSub(b, a), d) ELSE BigLe(BigSub(a, b), d)

AsksPriceOf(c, symbols) ==
    /\ IsToolCall(c, "get_token_price")
    /\ "token_identifier" \in DOMAIN ArgumentsOf(c)
    /\ ArgumentsOf(c).token_identifier \in symbols

WethSymbolSpellings == {"WETH", "weth"}

\* the quote unit the request in hand names, USD when it names none
QuoteUnitOf(c) ==
    IF "quote_currency" \in DOMAIN ArgumentsOf(c)
    THEN to_uppercase(ArgumentsOf(c).quote_currency)
    ELSE "USD"

\* the pool lookups of the request in hand: one getPair call for each hop
Hops(c) == {i \in 1..Len(trace[c]) : trace[c][i].prim = "eth_call getPair"}

\* every call of the request in hand after the symbol fetch was answered, and no
\* pair was missing
EveryHopAnswered(c) ==
    /\ AnsweredFrom(c, 2)
    /\ \A i \in Hops(c) : ~NoPairAt(c, i)

\* the spot price of token in quote, from the chain's pool
SpotPrice(token, quote) ==
    checked_div(to_decimal(ReserveOf(quote), chain.tokens[quote].decimals).val,
                to_decimal(ReserveOf(token), chain.tokens[token].decimals).val).val

\* C21: a USD price is the product of two hops, the token's price in the wrapped
\* native asset (1, with no pool lookup, for the wrapped native asset itself) times
\* the wrapped native asset's price in the stable asset; it is returned only when
\* every hop's pair exists and every call was answered, never as one hop alone.  An
\* ETH price is the single hop to the wrapped native asset, and 1 for that asset.
C21_UsdPriceIsTwoHops ==
    \A c \in Conns :
        (AsksPriceOf(c, UsdcSymbolSpellings \cup WethSymbolSpellings) /\ HasQuote(c)) =>
            LET weth == ArgumentsOf(c).token_identifier \in WethSymbolSpellings
            IN  /\ EveryHopAnswered(c)
                /\ trace[c][1].prim = "eth_call symbol"
                /\ QuoteOf(c).quote_currency = QuoteUnitOf(c)
                /\ QuoteUnitOf(c) = "USD" =>
                       /\ Cardinality(Hops(c)) = (IF weth THEN 1 ELSE 2)
                       /\ QuoteOf(c).price =
                              checked_mul(IF weth THEN DecOne
                                          ELSE SpotPrice(USDC_ADDRESS, WETH_ADDRESS),
                                          SpotPrice(WETH_ADDRESS, USDC_ADDRESS)).val
                /\ QuoteUnitOf(c) = "ETH" =>
                       /\ Cardinality(Hops(c)) = (IF weth THEN 0 ELSE 1)
                       /\ weth => Len(trace[c]) = 1
                       /\ QuoteOf(c).price =
                              (IF weth THEN DecOne
                               ELSE SpotPrice(USDC_ADDRESS, WETH_ADDRESS))

\* USDC was priced in USD over two hops, 0.0004 ETH times 2500 USDC
C21_Witness ==
    \E c \in Conns :
        /\ AsksPriceOf(c, UsdcSymbolSpellings)
        /\ HasQuote(c)
        /\ QuoteOf(c).quote_currency = "USD"
        /\ Cardinality(Hops(c)) = 2
        /\ SpotPrice(WETH_ADDRESS, USDC_ADDRESS) = DecOfInt(2500)
        /\ QuoteOf(c).price = DecOne

\* the spellings of the two quote units, and units that are neither
SupportedQuoteSpellings == {"USD", "usd", "ETH", "eth"}
UnsupportedQuoteSpellings == {"EUR", "eur"}

IsPriceRequest(c) ==
    /\ IsToolCall(c, "get_token_price")
    /\ "token_identifier" \in DOMAIN ArgumentsOf(c)

\* C22: get_token_price takes two quote units, "USD" and "ETH" in any letter case,
\* and USD when none is named; any other unit is answered at once with
\* PriceOracleError (unsupported quote currency), before the token is resolved and
\* before any gateway call, whatever the token identifier.
C22_OnlyUsdAndEthQuotes ==
    \A c \in Conns :
        IsPriceRequest(c) =>
            IF "quote_currency" \in DOMAIN ArgumentsOf(c)
               /\ ArgumentsOf(c).quote_currency \in UnsupportedQuoteSpellings
            THEN /\ ~Suspended(c)
                 /\ trace[c] = <<>>
                 /\ IsPriceOracleError(c, {"unsupported quote currency"})
            ELSE /\ ~IsPriceOracleError(c, {"unsupported quote currency"})
                 /\ HasQuote(c) =>
                        /\ QuoteOf(c).quote_currency \in {"USD", "ETH"}
                        /\ "quote_currency" \notin DOMAIN ArgumentsOf(c)
                               => QuoteOf(c).quote_currency = "USD"
                        /\ "quote_currency" \in DOMAIN ArgumentsOf(c)
                               => /\ ArgumentsOf(c).quote_currency \in SupportedQuoteSpellings
                                  /\ (QuoteOf(c).quote_currency = "ETH")
                                         = (ArgumentsOf(c).quote_currency \in {"ETH", "eth"})

\* a price in "EUR" was refused for an identifier that names no token
C22_Witness ==
    \E c \in Conns :
        /\ IsPriceRequest(c)
        /\ ArgumentsOf(c).token_identifier = "NOPE"
        /\ "quote_currency" \in DOMAIN ArgumentsOf(c)
        /\ ArgumentsOf(c).quote_currency = "EUR"
        /\ trace[c] = <<>>
        /\ IsPriceOracleError(c, {"unsupported quote currency"})

\* methods and tools the server does not have
UnknownMethods == {"resources/list"}
UnknownTools == {"transfer"}

\* the response to the request in hand is the error with this code, no call made
IsErrorCode(c, code) ==
    /\ Responded(c)
    /\ resp[c].val.result.tag = "None"
    /\ resp[c].val.error.tag = "Some"
    /\ resp[c].val.error.val.code = code
    /\ trace[c] = <<>>

\* C23: a request naming an unknown method, and a tools/call naming an unknown tool,
\* is answered with error code -32601, whatever the rest of its params (arguments
\* absent or ill-formed included) and whether the server is initialised or not.
C23_UnknownMethodOrToolIsNotFound ==
    \A c \in Conns :
        /\ req[c].method \in UnknownMethods => IsErrorCode(c, -32601)
        /\ (/\ req[c].method = "tools/call"
            /\ req[c].params.name.tag = "Some"
            /\ req[c].params.name.val \in UnknownTools) => IsErrorCode(c, -32601)

\* the params of a tools/call that do not make a request of a known tool
Malformed(params) ==
    \/ params.name.tag = "None"
    \/ /\ params.name.val \in ToolNames
       /\ \/ params.arguments.tag = "None"
          \/ ~(RequiredFields(params.name.val) \subseteq DOMAIN params.arguments.val)
          \/ \E f \in StringFields(params.name.val) : params.arguments.val[f] = JsonNull

\* the response to the request in hand is the tool's failure e, wrapped
IsToolFailure(c, e) ==
    /\ Responded(c)
    /\ resp[c].val.result.tag = "None"
    /\ resp[c].val.error.tag = "Some"
    /\ resp[c].val.error.val.code = -32603
    /\ resp[c].val.error.val.message = FailurePrefix(req[c].params.name.val)
    /\ resp[c].val.error.val.cause = Some(e)

\* the request in hand is a well-formed call of this tool
Calls(c, tool_name) ==
    /\ req[c].method = "tools/call"
    /\ ~Malformed(req[c].params)
    /\ req[c].params.name.val = tool_name

TokenArgumentOf(c) == Optional(req[c].params.arguments.val, "token_address")

\* C24: a tools/call whose name is missing, or which names a known tool and has no
\* arguments, lacks a required field or gives null for a string field, is answered
\* -32602 and makes no gateway call. A failure the tool returns (invalid address,
\* unknown token, failed gateway call, oracle or precision error) is answered -32603,
\* with the tool's prefix and the text of that failure.
C24_InvalidParamsAndToolFailures ==
    \A c \in Conns :
        /\ (req[c].method = "tools/call" /\ Malformed(req[c].params))
              => IsErrorCode(c, -32602)
        /\ (Calls(c, "get_balance") /\ req[c].params.arguments.val.address = "not an address")
              => IsToolFailure(c, Err("InvalidAddress", "invalid Ethereum address"))
        /\ (Calls(c, "get_balance") /\ TokenArgumentOf(c) = Some("NOPE"))
              => IsToolFailure(c, Err("TokenNotFound", "token not found"))
        /\ (/\ Calls(c, "get_balance") \/ Calls(c, "get_token_price")
            /\ Responded(c)
            /\ trace[c] # <<>>
            /\ trace[c][Len(trace[c])].ans.tag = "Err"
            /\ trace[c][Len(trace[c])].prim # "eth_call symbol")
              => IsToolFailure(c, trace[c][Len(trace[c])].ans)
        /\ (/\ \E tool_name \in ToolNames : Calls(c, tool_name)
            /\ Responded(c)
            /\ resp[c].val.error.tag = "Some")
              => /\ resp[c].val.error.val.cause.tag = "Some"
                 /\ resp[c].val.error.val.cause.val.tag = "Err"
                 /\ resp[c].val.error.val.cause.val.msg # ""
                 /\ IsToolFailure(c, resp[c].val.error.val.cause.val)

\* a price query answered -32603 with the oracle's failure to read the reserves
C24_Witness ==
    \E c \in Conns :
        /\ Calls(c, "get_token_price")
        /\ Len(trace[c]) > 1
        /\ trace[c][Len(trace[c])].prim = "eth_call getReserves"
        /\ IsToolFailure(c, Err("PriceOracleError", "cannot get reserves"))

\* the server's slots are all empty
Uninitialised == \A s \in SlotNames : ~slots[s]

\* C25: tools/list is answered with exactly the three descriptors get_balance,
\* get_token_price and swap_tokens, whatever its params and whether the server is
\* initialised or not, and no gateway call is made for it.
C25_ToolsListIsTheThreeTools ==
    \A c \in Conns :
        req[c].method = "tools/list" =>
            /\ Responded(c)
            /\ resp[c].val.error.tag = "None"
            /\ resp[c].val.result.tag = "Some"
            /\ Len(resp[c].val.result.val.tools) = 3
            /\ {resp[c].val.result.val.tools[i] : i \in 1..3} = ToolNames
            /\ trace[c] = <<>>

\* tools/list with params, answered by a server whose initialize has failed
C25_Witness ==
    \E c \in Conns :
        /\ req[c].method = "tools/list"
        /\ req[c].params.arguments.tag = "Some"
        /\ main_pc = "exited"
        /\ Uninitialised
        /\ Responded(c)
        /\ resp[c].val.result.tag = "Some"

\* C26: on a connection every line that is not empty gets exactly one response line,
\* in the order of the lines: the handler reads its next line only when the line in
\* hand has been answered, with that request's id, and never ends before answering
\* it; a line that is no request is answered -32700 with id null and the connection
\* goes on reading.
C26_OneResponsePerLineInOrder ==
    \A c \in Conns :
        /\ pc[c] # "panicked"
        /\ (pc[c] \in {"reading", "closed"} /\ req[c] # NoRequest)
              => (Responded(c) /\ resp[c].val.id = req[c].id)
        /\ (req[c] = NoRequest /\ Responded(c))
              => (resp[c] = Some(parse_error_response) /\ pc[c] \in {"reading", "closed"})

\* C27: a handler suspended at a gateway call (balance, decimals, symbol, reserves,
\* router or gas) holds no lock on the server's tool slots.
C27_NoLockHeldAcrossGatewayCall ==
    \A c \in Conns : Suspended(c) => guards[c] = {}

\* where in the gateway trace t of a swap the balance check returned: at the answer to
\* balanceOf, or at a failed decimals call that only symbol calls precede; 0 if not yet
BalanceCheckEnd(t) ==
    IF \E i \in 1..Len(t) : t[i].prim = "eth_call balanceOf"
    THEN CHOOSE i \in 1..Len(t) : t[i].prim = "eth_call balanceOf"
    ELSE IF \E i \in 1..Len(t) : /\ t[i].prim = "eth_call decimals"
                                 /\ t[i].ans.tag = "Err"
                                 /\ \A j \in 1..(i - 1) : t[j].prim = "eth_call symbol"
    THEN CHOOSE i \in 1..Len(t) : t[i].prim = "eth_call decimals" /\ t[i].ans.tag = "Err"
    ELSE 0

\* the stage of the i-th call of a swap: 1 balance check, 2 decimals, 3 router quote,
\* 4 gas price, 5 gas estimate, 6 simulated call
StageOf(t, i) ==
    IF BalanceCheckEnd(t) = 0 \/ i <= BalanceCheckEnd(t)
    THEN (IF t[i].prim \in {"eth_call symbol", "eth_call decimals", "eth_call balanceOf"}
          THEN 1 ELSE 0)
    ELSE CASE t[i].prim = "eth_call decimals" -> 2
           [] t[i].prim = "eth_call getAmountsOut" -> 3
           [] t[i].prim = "eth_gasPrice" -> 4
           [] t[i].prim = "eth_estimateGas" -> 5
           [] t[i].prim = "eth_call swapExactTokensForTokens" -> 6
           [] OTHER -> 0

\* the stage of the call a suspended swap awaits
PendingStage(c) ==
    CASE pc[c] \in {"BalanceSymbol", "BalanceDecimals", "BalanceOf"} -> 1
      [] pc[c] \in {"SwapFromDecimals", "SwapToDecimals"} -> 2
      [] pc[c] = "SwapGetAmountsOut" -> 3
      [] pc[c] = "SwapGasPrice" -> 4
      [] pc[c] = "SwapEstimateGas" -> 5
      [] pc[c] = "SwapCall" -> 6
      [] OTHER -> 0

\* i before j in the order of the stages: the decimals stage has up to two calls, the
\* balance check up to three, every later stage one
StageBefore(si, sj) == si > 0 /\ si <= sj /\ (si >= 3 => si < sj)

\* the router has quoted a non-empty list of amounts for the swap in hand
RouterQuoted(c) ==
    \E i \in 1..Len(trace[c]) :
        /\ trace[c][i].prim = "eth_call getAmountsOut"
        /\ trace[c][i].ans.tag = "Ok"
        /\ trace[c][i].ans.val # <<>>

\* C28: the gateway calls of one swap simulation follow one another in the order
\* balance check, decimals of the two tokens, getAmountsOut, gas price, gas simulation,
\* each issued after the one before it was answered. getAmountsOut is issued only after
\* the balance check has returned; the gas stage only after getAmountsOut answered a
\* non-empty list and with a slippage the computation accepts.
C28_SwapStagesInOrder ==
    \A c \in Conns :
        IsToolCall(c, "swap_tokens") =>
            LET t == trace[c]
            IN  /\ \A i, j \in 1..Len(t) : i < j => StageBefore(StageOf(t, i), StageOf(t, j))
                /\ Suspended(c) =>
                      /\ PendingStage(c) > 0
                      /\ \A i \in 1..Len(t) : StageBefore(StageOf(t, i), PendingStage(c))
                      /\ PendingStage(c) >= 2 => BalanceCheckEnd(t) > 0
                /\ \A i \in 1..Len(t) :
                      t[i].prim = "eth_call getAmountsOut" =>
                          BalanceCheckEnd(t) > 0 /\ BalanceCheckEnd(t) < i
                /\ (\/ Suspended(c) /\ PendingStage(c) >= 4
                    \/ \E i \in 1..Len(t) : StageOf(t, i) >= 4)
                      => /\ RouterQuoted(c)
                         /\ ~DecLt(ArgumentsOf(c).slippage, DecZero)
                         /\ ~DecLt(DecHundred, ArgumentsOf(c).slippage)

\* a swap whose six stages have all been answered
C28_Witness ==
    \E c \in Conns :
        /\ IsToolCall(c, "swap_tokens")
        /\ Responded(c)
        /\ \A s \in 1..6 : \E i \in 1..Len(trace[c]) : StageOf(trace[c], i) = s

\* initialize has not returned Ok: it was never called, or it failed
NotInitialised == main_pc \in {"new_rpc", "exited"}

\* the response to the request in hand is the refusal of an empty slot
IsNotInitializedError(c) ==
    /\ IsErrorCode(c, -32603)
    /\ resp[c].val.error.val.message = "tool not initialized"
    /\ resp[c].val.error.val.cause = NoneV

\* what holds of initialize and of ping whatever the calls are
SlotsFollowInitialize ==
    /\ NotInitialised => Uninitialised
    /\ main_pc = "listening" => \A s \in SlotNames : slots[s]
    /\ \A c \in Conns :
           req[c].method = "ping" =>
               Responded(c) /\ resp[c].val.result = Some([status |-> "ok"])

NegativeAmountSwap(c) ==
    /\ IsToolCall(c, "swap_tokens")
    /\ "amount" \in DOMAIN ArgumentsOf(c)
    /\ parse_decimal(ArgumentsOf(c).amount).tag = "Some"
    /\ parse_decimal(ArgumentsOf(c).amount).val.neg

\* C30: in every SwapResponse simulation_success is true exactly when error is absent;
\* a failed one has min_output and gas_cost_eth 0; a successful one has
\* 0 <= min_output <= estimated_output. A swap of a negative amount never comes to the
\* router query and is never answered with a successful quote.
C30_SwapResponseIsConsistent ==
    \A c \in Conns :
        /\ (IsToolCall(c, "swap_tokens") /\ HasQuote(c)) =>
              /\ QuoteOf(c).simulation_success <=> QuoteOf(c).error.tag = "None"
              /\ ~QuoteOf(c).simulation_success =>
                    QuoteOf(c).min_output = DecZero /\ QuoteOf(c).gas_cost_eth = DecZero
              /\ QuoteOf(c).simulation_success =>
                    /\ ~DecLt(QuoteOf(c).min_output, DecZero)
                    /\ ~DecLt(QuoteOf(c).estimated_output, QuoteOf(c).min_output)
        /\ NegativeAmountSwap(c) =>
              /\ ~Asked(c, "eth_call getAmountsOut")
              /\ pc[c] \notin {"SwapGetAmountsOut", "SwapGasPrice", "SwapEstimateGas", "SwapCall"}
              /\ ~IsSuccessfulQuote(c)

\* a swap of -1 that passed the balance check and was refused at the conversion of
\* its amount, before the router
C30_Witness ==
    \E c \in Conns :
        /\ NegativeAmountSwap(c)
        /\ HasQuote(c)
        /\ ~QuoteOf(c).simulation_success
        /\ QuoteOf(c).error.val.text = "amount conversion failed"
        /\ Asked(c, "eth_call balanceOf")
        /\ AnswerTo(c, "eth_call balanceOf").tag = "Ok"

====
